---- MODULE Spec2Model ----
(***************************************************************************)
(* Model of the Google Trends collector (src/src/services/                 *)
(* trends_collector.py) and of the record validation it relies on          *)
(* (src/src/models/core.py).                                               *)
(*                                                                         *)
(* Time is counted in ticks, TicksPerUnit ticks to one second.             *)
(* Growth rates are counted in hundredths of a percent (42.11 is 4211), so *)
(* a value rounded to two decimals is an integer.                          *)
(* A string is a sequence of runs <<character, count>>: "aa b" is          *)
(* << <<"a", 2>>, <<" ", 1>>, <<"b", 1>> >>.                               *)
(***************************************************************************)
EXTENDS Integers, Sequences, FiniteSets, TLC

\* ---------------------------------------------------------------- bounds
TicksPerUnit == 2
MaxJitter == 0
MaxIdle == 1
MaxOps == 2
MaxRaw == 1
MaxBatch == 2
MaxLen == 8
MaxPermuted == 3
MaxStride == 2
MaxOver == 2
MaxVaried == 2
MaxSessions == 2
MaxBlockSteps == 2
MaxRows == 2
MaxCalls == 4
MaxFrame == 5
MaxRaceClock == 5
MaxMigrateCalls == 3

\* ------------------------------------------------------ program constants
MinRequestInterval == 1 * TicksPerUnit
QuotaCooldown == 60 * TicksPerUnit
RecentWindow == 4
PreviousWindow == 8
VolumeScale == 10000
MinVolume == 100
MaxSearchVolume == 1000000000
MinGrowthRate == -100 * 100
MaxGrowthRate == 10000 * 100
MaxKeywordLen == 100
TrendingLimit == 20
ZeroPreviousGrowth == 100 * 100

\* ---------------------------------------------------------------- helpers
Max(a, b) == IF a >= b THEN a ELSE b
Min(a, b) == IF a <= b THEN a ELSE b

RECURSIVE SumSeq(_)
SumSeq(s) == IF s = <<>> THEN 0 ELSE Head(s) + SumSeq(Tail(s))

\* a Python slice index: negative counts from the end, both ends clamp
SliceIndex(i, n) == IF i < 0 THEN Max(n + i, 0) ELSE Min(i, n)

\* the Python slice s[lo:hi]
Slice(s, lo, hi) == SubSeq(s, SliceIndex(lo, Len(s)) + 1, SliceIndex(hi, Len(s)))

\* the hundredths nearest to the percentage 100 * num / den (den > 0): the
\* binary floating point evaluation lands on either neighbour when the exact
\* value lies halfway between two hundredths
RoundHundredths(num, den) ==
    LET q == (10000 * num) \div den
        r == (10000 * num) - q * den
    IN  IF 2 * r < den THEN {q}
        ELSE IF 2 * r > den THEN {q + 1}
        ELSE {q, q + 1}

\* ---------------------------------------------------- metric derivation
\* a growth rate that takes a single point for growth from nothing
CalculateGrowthRate_ShortGrows(interest_data) ==
    IF Len(interest_data) < 2
    THEN (IF SumSeq(interest_data) > 0 THEN {ZeroPreviousGrowth} ELSE {0})
    ELSE
      LET recent_values == Slice(interest_data, -RecentWindow, Len(interest_data))
          previous_values == Slice(interest_data, -PreviousWindow, -RecentWindow)
          sr == SumSeq(recent_values)
          sp == SumSeq(previous_values)
          nr == Len(recent_values)
          np == Len(previous_values)
      IN  IF recent_values = <<>> \/ previous_values = <<>> THEN {0}
          ELSE IF sp = 0 THEN (IF sr > 0 THEN {ZeroPreviousGrowth} ELSE {0})
          ELSE RoundHundredths(sr * np - sp * nr, sp * nr)

\* a growth rate that answers 0.0 whenever the previous window averages 0
CalculateGrowthRate_ZeroIsFlat(interest_data) ==
    IF Len(interest_data) < 2 THEN {0}
    ELSE
      LET recent_values == Slice(interest_data, -RecentWindow, Len(interest_data))
          previous_values == Slice(interest_data, -PreviousWindow, -RecentWindow)
          sr == SumSeq(recent_values)
          sp == SumSeq(previous_values)
          nr == Len(recent_values)
          np == Len(previous_values)
      IN  IF recent_values = <<>> \/ previous_values = <<>> THEN {0}
          ELSE IF sp = 0 THEN {0}
          ELSE RoundHundredths(sr * np - sp * nr, sp * nr)

\* a growth rate whose previous window is the first points of the series
CalculateGrowthRate_FirstPoints(interest_data) ==
    IF Len(interest_data) < 2 THEN {0}
    ELSE
      LET recent_values == Slice(interest_data, -RecentWindow, Len(interest_data))
          previous_values == Slice(interest_data, 0, RecentWindow)
          sr == SumSeq(recent_values)
          sp == SumSeq(previous_values)
          nr == Len(recent_values)
          np == Len(previous_values)
      IN  IF recent_values = <<>> \/ previous_values = <<>> THEN {0}
          ELSE IF sp = 0 THEN (IF sr > 0 THEN {ZeroPreviousGrowth} ELSE {0})
          ELSE RoundHundredths(sr * np - sp * nr, sp * nr)

\* a growth rate whose short previous window is padded to four points
CalculateGrowthRate_PaddedPrevious(interest_data) ==
    IF Len(interest_data) < 2 THEN {0}
    ELSE
      LET recent_values == Slice(interest_data, -RecentWindow, Len(interest_data))
          previous_values == Slice(interest_data, -PreviousWindow, -RecentWindow)
          sr == SumSeq(recent_values)
          sp == SumSeq(previous_values)
          nr == Len(recent_values)
          np == PreviousWindow - RecentWindow
      IN  IF recent_values = <<>> \/ previous_values = <<>> THEN {0}
          ELSE IF sp = 0 THEN (IF sr > 0 THEN {ZeroPreviousGrowth} ELSE {0})
          ELSE RoundHundredths(sr * np - sp * nr, sp * nr)

\* _calculate_growth_rate: the set of values the call can return
CalculateGrowthRate(interest_data) ==
    IF Len(interest_data) < 2 THEN {0}
    ELSE
      LET recent_values == Slice(interest_data, -RecentWindow, Len(interest_data))
          previous_values == Slice(interest_data, -PreviousWindow, -RecentWindow)
          sr == SumSeq(recent_values)
          sp == SumSeq(previous_values)
          nr == Len(recent_values)
          np == Len(previous_values)
      IN  IF recent_values = <<>> \/ previous_values = <<>> THEN {0}
          ELSE IF sp = 0 THEN (IF sr > 0 THEN {ZeroPreviousGrowth} ELSE {0})
          ELSE IF sp > 0 THEN RoundHundredths(sr * np - sp * nr, sp * nr)
          ELSE RoundHundredths(sp * nr - sr * np, (0 - sp) * nr)

\* the strictly positive values of a series, in order
RECURSIVE PositiveValues(_)
PositiveValues(s) ==
    IF s = <<>> THEN <<>>
    ELSE IF Head(s) > 0 THEN <<Head(s)>> \o PositiveValues(Tail(s))
    ELSE PositiveValues(Tail(s))

\* a volume estimate whose floor of 100 also applies to no data at all
EstimateSearchVolume_FloorEmpty(interest_data) ==
    IF interest_data = <<>> THEN MinVolume
    ELSE LET values == PositiveValues(interest_data)
         IN  IF values = <<>> THEN MinVolume
             ELSE Max((SumSeq(values) * VolumeScale) \div Len(values), MinVolume)

\* a volume estimate that averages over all the points, zeros included
EstimateSearchVolume_MeanOfAll(interest_data) ==
    IF interest_data = <<>> THEN 0
    ELSE LET values == PositiveValues(interest_data)
         IN  IF values = <<>> THEN 0
             ELSE Max((SumSeq(values) * VolumeScale) \div Len(interest_data), MinVolume)

\* _estimate_search_volume
EstimateSearchVolume(interest_data) ==
    IF interest_data = <<>> THEN 0
    ELSE LET values == PositiveValues(interest_data)
         IN  IF values = <<>> THEN 0
             ELSE Max((SumSeq(values) * VolumeScale) \div Len(values), MinVolume)

\* ------------------------------------------------------ record validation
Whitespace == {" "}
Forbidden == {"<", ">", "\"", "'"}

RECURSIVE StrLen(_)
StrLen(s) == IF s = <<>> THEN 0 ELSE Head(s)[2] + StrLen(Tail(s))

RECURSIVE LStrip(_)
LStrip(s) ==
    IF s = <<>> THEN <<>>
    ELSE IF Head(s)[1] \in Whitespace THEN LStrip(Tail(s))
    ELSE s

RECURSIVE Reverse(_)
Reverse(s) == IF s = <<>> THEN <<>> ELSE Reverse(Tail(s)) \o <<Head(s)>>

\* str.strip()
Strip(s) == Reverse(LStrip(Reverse(LStrip(s))))

HasForbidden(s) == \E i \in 1..Len(s) : s[i][1] \in Forbidden

\* validate_keyword: raises ValueError, or returns the cleaned keyword
ValidateKeyword(keyword) ==
    IF keyword = <<>> THEN [raises |-> TRUE, value |-> <<>>]
    ELSE LET cleaned == Strip(keyword)
         IN  IF cleaned = <<>> THEN [raises |-> TRUE, value |-> <<>>]
             ELSE IF StrLen(cleaned) > MaxKeywordLen THEN [raises |-> TRUE, value |-> <<>>]
             ELSE IF HasForbidden(cleaned) THEN [raises |-> TRUE, value |-> <<>>]
             ELSE [raises |-> FALSE, value |-> cleaned]

\* validate_search_volume: TRUE when it raises ValueError
ValidateSearchVolumeRaises(volume) == volume < 0 \/ volume > MaxSearchVolume

\* the float nan, and the comparison a < b of two floats: every comparison
\* with nan is False
NaNRate == 2147483647
FloatLess(a, b) == a # NaNRate /\ b # NaNRate /\ a < b

\* validate_growth_rate: TRUE when it raises ValueError
ValidateGrowthRateRaises(rate) ==
    FloatLess(rate, MinGrowthRate) \/ FloatLess(MaxGrowthRate, rate)

\* TrendKeyword(...).__post_init__: raises ValueError, or yields the record;
\* region, category, timestamp and related keywords are the fixed valid
\* values of the only call site
TrendKeyword(keyword, search_volume, growth_rate) ==
    IF \/ ValidateKeyword(keyword).raises
       \/ ValidateSearchVolumeRaises(search_volume)
       \/ ValidateGrowthRateRaises(growth_rate)
    THEN [raises |-> TRUE, keyword |-> <<>>, search_volume |-> 0, growth_rate |-> 0]
    ELSE [raises |-> FALSE,
          keyword |-> ValidateKeyword(keyword).value,
          search_volume |-> search_volume,
          growth_rate |-> growth_rate]

\* str.upper() on the letters used here
Upper(s) ==
    [i \in 1..Len(s) |->
        <<IF s[i][1] = "u" THEN "U" ELSE IF s[i][1] = "s" THEN "S"
          ELSE IF s[i][1] = "a" THEN "A" ELSE s[i][1],
          s[i][2]>>]

UppercaseLetters ==
    {"A", "B", "C", "D", "E", "F", "G", "H", "I", "J", "K", "L", "M",
     "N", "O", "P", "Q", "R", "S", "T", "U", "V", "W", "X", "Y", "Z"}

\* validate_region: the code upper-cased and stripped, or ValueError
ValidateRegion(region) ==
    IF region = <<>> THEN [raises |-> TRUE, value |-> <<>>]
    ELSE LET r == Strip(Upper(region))
         IN  IF StrLen(r) = 2 /\ \A i \in 1..Len(r) : r[i][1] \in UppercaseLetters
             THEN [raises |-> FALSE, value |-> r]
             ELSE [raises |-> TRUE, value |-> <<>>]

\* the values of the TrendCategory enumeration
TrendCategory ==
    {"all", "business", "entertainment", "health", "science_tech", "sports",
     "top_stories"}

\* lines 128-136: the related keywords that validate, cleaned
RECURSIVE ValidatedKeywords(_)
ValidatedKeywords(kws) ==
    IF kws = <<>> THEN <<>>
    ELSE IF ValidateKeyword(Head(kws)).raises THEN ValidatedKeywords(Tail(kws))
    ELSE <<ValidateKeyword(Head(kws)).value>> \o ValidatedKeywords(Tail(kws))

\* TrendKeyword.__post_init__ on arguments of their annotated types: the
\* record as stored, or ValueError
TrendKeywordInit(keyword, search_volume, growth_rate, region, category, related_keywords) ==
    IF \/ ValidateKeyword(keyword).raises
       \/ ValidateSearchVolumeRaises(search_volume)
       \/ ValidateGrowthRateRaises(growth_rate)
       \/ ValidateRegion(region).raises
       \/ category \notin TrendCategory
    THEN [raises |-> TRUE, keyword |-> <<>>, search_volume |-> 0, growth_rate |-> 0,
          region |-> <<>>, category |-> "", related_keywords |-> <<>>]
    ELSE [raises |-> FALSE,
          keyword |-> ValidateKeyword(keyword).value,
          search_volume |-> search_volume,
          growth_rate |-> growth_rate,
          region |-> ValidateRegion(region).value,
          category |-> category,
          related_keywords |-> ValidatedKeywords(related_keywords)]

\* ------------------------------------------------------- provider answers
NaN == -1

\* a normalisation that leaves the rows with a missing value out
RECURSIVE Normalise_DropMissing(_)
Normalise_DropMissing(raw) ==
    IF raw = <<>> THEN <<>>
    ELSE (IF Head(raw) = NaN THEN <<>> ELSE <<Head(raw)>>)
         \o Normalise_DropMissing(Tail(raw))

\* not pd.isna(v) -> int(v), else 0, for every row (lines 189-193, 299-303)
RECURSIVE Normalise(_)
Normalise(raw) ==
    IF raw = <<>> THEN <<>>
    ELSE <<IF Head(raw) = NaN THEN 0 ELSE Head(raw)>> \o Normalise(Tail(raw))

TooManyRequestsError == "TooManyRequestsError"
ResponseError == "ResponseError"
OtherError == "Exception"
ValueError == "ValueError"
ProviderErrors == {TooManyRequestsError, ResponseError, OtherError}

KwPlain == << <<"a", 3>> >>
KwPadded == << <<" ", 1>>, <<"b", 2>>, <<" ", 1>> >>
KwBlank == << <<" ", 2>> >>
KwMarkup == << <<"<", 1>>, <<"a", 1>> >>
KwLong == << <<"a", MaxKeywordLen + 1>> >>
KeywordInputs == {KwPlain, KwPadded, KwBlank, KwMarkup, KwLong, <<>>}

\* what trending_searches can answer: up to MaxRaw raw entries
RawEntries == {KwPlain, KwPadded, KwBlank, KwMarkup}
RawLists == UNION {[1..n -> RawEntries] : n \in 0..MaxRaw}

\* what related_topics and related_queries can answer: the keyword has no
\* entry, or an entry whose top and rising frames are None or lists of titles
Q1 == << <<"q", 1>> >>
Q2 == << <<"r", 1>> >>
RelatedAnswers ==
    {[present |-> FALSE, top_none |-> TRUE, top |-> <<>>,
      rising_none |-> TRUE, rising |-> <<>>]}
    \cup {[present |-> TRUE, top_none |-> tn, top |-> t,
           rising_none |-> rn, rising |-> r] :
             tn \in BOOLEAN, rn \in BOOLEAN,
             t \in {<<>>, <<Q1, KwPlain>>}, r \in {<<>>, <<Q2, Q1>>}}

\* what interest_by_region can answer: rows <<country, value>>
GeoAnswers == {{}, {<<"US", 100>>, <<"GB", 0>>}}

\* what interest_over_time can answer for one keyword
RawSeries == {<<>>, <<50, NaN, 70>>, <<8, 8, 8, 8, 8, 8, 8, 9>>}

\* ----------------------------------------------------------------- state
VARIABLES
    clock,              \* time.time()
    last_request_time,  \* self._last_request_time
    pytrends,           \* self._pytrends is not None
    ops,                \* public operations started so far
    op,                 \* the public operation running, or last run
    pc,                 \* where the running operation stands
    keyword,            \* the keyword argument of the operation
    current_time,       \* _rate_limit: current_time
    sleep_time,         \* _rate_limit: the argument of time.sleep, 0 for no sleep
    error,              \* the exception caught by the operation's except clause
    outcome,            \* "none", "returned" or "raised"
    result,             \* the value returned
    raised,             \* the exception that reached the caller
    trending_searches,  \* get_trending_keywords: the rows iterated
    idx,                \* get_trending_keywords: the row of the loop
    keywords,           \* get_trending_keywords: the records built so far
    interest_data,      \* the normalised interest series in hand
    related_topics,     \* get_keyword_details: related_topics
    related_queries,    \* get_keyword_details: related_queries
    geo_distribution,   \* get_keyword_details: geo_distribution
    prev_request_time,  \* history: last_request_time before the latest acquisition
    acquisitions,       \* history: gate acquisitions completed
    fetches_since_gate, \* history: provider fetches since the latest acquisition
    failed,             \* history: the <<call, exception>> pairs raised in this operation
    classified,         \* history: the errors passed to _handle_request_error
    handler_raised,     \* history: what _handle_request_error raised last
    cooldowns,          \* history: quota cooldowns slept in this operation
    error_time,         \* history: the clock when the except clause was entered
    series,             \* metric derivation: the input series
    growth,             \* metric derivation: the growth rate returned
    volume,             \* metric derivation: the search volume estimated
    raw_list,           \* history: the list the trending fetch answered
    batch_rows,         \* history: the rows of the batch handled so far
    answers,            \* history: <<fetch, "empty" or "data">> of each answer
    phases,             \* history: the phases the operation went through
    issued,             \* history: the provider calls issued, <<call, row, returned>>
    dd_answer,          \* related keywords: the provider's related_queries answer
    dd_keyword,         \* related keywords: the keyword asked about
    dd_out,             \* related keywords: the list lines 258-277 produce
    dd_again,           \* related keywords: lines 271-277 applied to dd_out
    dd_pc,              \* related keywords: "start", "once" or "twice"
    tk_args,            \* TrendKeyword: the constructor's arguments
    tk_rec,             \* TrendKeyword: the record built, or raises
    tk_pc,              \* TrendKeyword: "start" or "constructed"
    initialized,        \* database: DatabaseManager._initialized
    store,              \* database: the rows later sessions can see
    pending,            \* database: the rows the open session has not committed
    sessions,           \* database: the sessions opened so far
    db_pc,              \* database: where get_session stands
    db_error,           \* database: the exception in flight
    db_outcome,         \* database: how the with statement ended
    block_exit,         \* history: how the block ended
    block_error,        \* history: the exception the block raised
    block_writes,       \* history: the rows the block added
    block_committed,    \* history: the rows the block committed itself
    commits,            \* history: session.commit() calls of get_session
    rollbacks,          \* history: session.rollback() calls of get_session
    closes,             \* history: session.close() calls of get_session
    recommendations,    \* report: TrendsReport.recommendations
    rp_calls,           \* report: the add_recommendation calls made
    rp_arg,             \* history: the argument of the last call
    rp_before,          \* history: the list before the last call
    rp_raised,          \* history: whether the last call raised ValueError
    interest_df,        \* interest frame: the keyword column of interest_over_time()
    is_partial,         \* interest frame: isPartial of the last row
    interest_pc,        \* interest frame: "rest", "fetched" or "normalised"
    threads,            \* concurrent callers of _rate_limit: each one's locals
    model_tables,       \* migrations: the tables of Base.metadata exist
    migration_table,    \* migrations: the table schema_migrations exists
    schema_migrations,  \* migrations: the versions recorded in it
    mg_op,              \* migrations: the function running, or last run
    mg_pc,              \* migrations: where it stands
    target_version,     \* migrate_down: target_version
    applied,            \* migrate_up, migrate_down: applied
    mg_idx,             \* migrate_up, migrate_down: the position of the loop
    success,            \* migrate_up, migrate_down: success
    mg_result,          \* migrations: the value returned, "none" before
    mg_calls,           \* migrations: the calls made so far
    mg_before,          \* history: the versions recorded when the call began
    mg_log              \* history: the <<version, succeeded>> steps of the call

vars == <<clock, last_request_time, pytrends, ops, op, pc, keyword, current_time,
          sleep_time, error, outcome, result, raised, trending_searches, idx,
          keywords, interest_data, related_topics, related_queries,
          geo_distribution, prev_request_time, acquisitions, fetches_since_gate,
          failed, classified, handler_raised, cooldowns, error_time, series,
          growth, volume, raw_list, batch_rows, answers, phases, issued, dd_answer, dd_keyword, dd_out, dd_again, dd_pc,
          tk_args, tk_rec, tk_pc, initialized, store, pending, sessions,
          db_pc, db_error, db_outcome, block_exit, block_error, block_writes,
          block_committed, commits, rollbacks, closes, recommendations,
          rp_calls, rp_arg, rp_before, rp_raised, interest_df, is_partial,
          interest_pc, threads, model_tables, migration_table,
          schema_migrations, mg_op, mg_pc, target_version, applied, mg_idx,
          success, mg_result, mg_calls, mg_before, mg_log>>

gateVars == <<last_request_time, current_time, sleep_time, prev_request_time,
              acquisitions>>
callVars == <<ops, op, keyword>>
metricVars == <<series, growth, volume>>
outVars == <<error, outcome, result, raised>>
loopVars == <<trending_searches, idx, keywords, interest_data, related_topics,
              related_queries, geo_distribution>>
histVars == <<failed, classified, handler_raised, cooldowns, error_time>>

\* everything that belongs to the other specifications of this module
dedupeVars == <<dd_answer, dd_keyword, dd_out, dd_again, dd_pc>>
recordVars == <<tk_args, tk_rec, tk_pc>>
dbHistVars == <<block_exit, block_error, block_writes, block_committed,
                commits, rollbacks, closes>>
dbVars == <<initialized, store, pending, sessions, db_pc, db_error, db_outcome,
            dbHistVars>>
reportVars == <<recommendations, rp_calls, rp_arg, rp_before, rp_raised>>
frameVars == <<interest_df, is_partial, interest_pc>>
raceVars == <<threads>>
migrateVars == <<model_tables, migration_table, schema_migrations, mg_op, mg_pc,
                 target_version, applied, mg_idx, success, mg_result, mg_calls,
                 mg_before, mg_log>>
pureVars == <<metricVars, dedupeVars, recordVars, dbVars, reportVars, frameVars,
              raceVars, migrateVars>>
notMetricVars == <<dedupeVars, recordVars, dbVars, reportVars, frameVars,
    raceVars, migrateVars>>
notDedupeVars == <<metricVars, recordVars, dbVars, reportVars, frameVars,
    raceVars, migrateVars>>
notRecordVars == <<metricVars, dedupeVars, dbVars, reportVars, frameVars,
    raceVars, migrateVars>>
notDbVars == <<metricVars, dedupeVars, recordVars, reportVars, frameVars,
    raceVars, migrateVars>>
notReportVars == <<metricVars, dedupeVars, recordVars, dbVars, frameVars,
    raceVars, migrateVars>>
notFrameVars == <<dedupeVars, recordVars, dbVars, reportVars, raceVars, migrateVars>>
notRaceVars == <<metricVars, dedupeVars, recordVars, dbVars, reportVars, frameVars,
    migrateVars>>
notMigrateVars == <<metricVars, dedupeVars, recordVars, dbVars, reportVars,
    frameVars, raceVars>>
batchVars == <<raw_list, batch_rows, answers>>
otherVars == <<pureVars, batchVars>>
collectorVars == <<clock, pytrends, pc, fetches_since_gate, gateVars, callVars,
                   outVars, loopVars, histVars, batchVars, phases, issued>>

NoGrowth == -999999
NoVolume == -1

\* no TrendKeyword under construction
NoArgs ==
    [keyword |-> <<>>, search_volume |-> 0, growth_rate |-> 0, region |-> <<>>,
     category |-> "", related_keywords |-> <<>>]
NoRecord ==
    [raises |-> TRUE, keyword |-> <<>>, search_volume |-> 0, growth_rate |-> 0,
     region |-> <<>>, category |-> "", related_keywords |-> <<>>]
RecordAtRest == tk_args = NoArgs /\ tk_rec = NoRecord /\ tk_pc = "start"

\* DatabaseManager.__init__, lines 25-28, on an empty database
DbAtRest ==
    /\ initialized = FALSE
    /\ store = {}
    /\ pending = {}
    /\ sessions = 0
    /\ db_pc = "idle"
    /\ db_error = "none"
    /\ db_outcome = "none"
    /\ block_exit = "none"
    /\ block_error = "none"
    /\ block_writes = {}
    /\ block_committed = {}
    /\ commits = 0
    /\ rollbacks = 0
    /\ closes = 0

\* a TrendsReport created without recommendations (line 304)
ReportAtRest ==
    /\ recommendations = <<>>
    /\ rp_calls = 0
    /\ rp_arg = <<>>
    /\ rp_before = <<>>
    /\ rp_raised = FALSE

\* the collector as __init__ leaves it (lines 35-40), nothing called yet
CollectorAtRest ==
    /\ last_request_time = 0
    /\ pytrends = FALSE
    /\ op = "none"
    /\ pc = "idle"
    /\ keyword = <<>>
    /\ current_time = 0
    /\ sleep_time = 0
    /\ error = "none"
    /\ outcome = "none"
    /\ result = <<>>
    /\ raised = "none"
    /\ trending_searches = <<>>
    /\ idx = 0
    /\ keywords = <<>>
    /\ interest_data = <<>>
    /\ related_topics = <<>>
    /\ related_queries = <<>>
    /\ geo_distribution = {}
    /\ prev_request_time = 0
    /\ acquisitions = 0
    /\ fetches_since_gate = 0
    /\ failed = {}
    /\ classified = <<>>
    /\ handler_raised = "none"
    /\ cooldowns = 0
    /\ error_time = 0
    /\ raw_list = <<>>
    /\ batch_rows = <<>>
    /\ answers = {}
    /\ phases = <<>>
    /\ issued = <<>>

\* no metric derivation under way
MetricsAtRest == series = <<>> /\ growth = NoGrowth /\ volume = NoVolume

\* no related-keyword list under construction
DedupeAtRest ==
    /\ dd_answer = [present |-> FALSE, top_none |-> TRUE, top |-> <<>>,
                    rising_none |-> TRUE, rising |-> <<>>]
    /\ dd_keyword = <<>>
    /\ dd_out = <<>>
    /\ dd_again = <<>>
    /\ dd_pc = "start"

\* no interest frame in hand
FrameAtRest == interest_df = <<>> /\ is_partial = FALSE /\ interest_pc = "rest"

\* the callers of _rate_limit, none of them inside it yet
Callers == {1, 2}
NotCalled ==
    [pc |-> "idle", current_time |-> 0, sleep_time |-> 0, wake_at |-> 0,
     after_other |-> FALSE, returned_at |-> 0]
RaceAtRest == threads = [c \in Callers |-> NotCalled]

\* a database without any table, and no migration function called yet
MigrateAtRest ==
    /\ model_tables = FALSE
    /\ migration_table = FALSE
    /\ schema_migrations = {}
    /\ mg_op = "none"
    /\ mg_pc = "idle"
    /\ target_version = 0
    /\ applied = <<>>
    /\ mg_idx = 0
    /\ success = TRUE
    /\ mg_result = "none"
    /\ mg_calls = 0
    /\ mg_before = {}
    /\ mg_log = <<>>

\* nothing under way in the specifications that came last
LaterAtRest == RaceAtRest /\ MigrateAtRest

\* nothing under way outside the collector, the metrics excepted, and so on
NotMetricsAtRest == DedupeAtRest /\ RecordAtRest /\ DbAtRest /\ ReportAtRest /\ FrameAtRest /\ LaterAtRest
NotDedupeAtRest == MetricsAtRest /\ RecordAtRest /\ DbAtRest /\ ReportAtRest /\ FrameAtRest /\ LaterAtRest
NotRecordAtRest == MetricsAtRest /\ DedupeAtRest /\ DbAtRest /\ ReportAtRest /\ FrameAtRest /\ LaterAtRest
NotDbAtRest == MetricsAtRest /\ DedupeAtRest /\ RecordAtRest /\ ReportAtRest /\ FrameAtRest /\ LaterAtRest
NotReportAtRest ==
    MetricsAtRest /\ DedupeAtRest /\ RecordAtRest /\ DbAtRest /\ FrameAtRest /\ LaterAtRest
PureAtRest == NotReportAtRest /\ ReportAtRest

Init ==
    /\ clock \in 0..MinRequestInterval
    /\ CollectorAtRest
    /\ ops = 0
    /\ PureAtRest

\* the operation enters a phase, or several in a row
Emit(events) == phases' = phases \o events

\* a call on the client is issued, for a row of the batch (0 outside the
\* loop), and returns or raises
Issue(call, row, returned) == issued' = Append(issued, <<call, row, returned>>)

\* an operation that goes to the client without the gate
FirstStep_NoGate(o) == "client"

\* lines 105, 178 and 250: every operation starts with _rate_limit()
FirstStep(o) == "rate_limit"

\* the serial caller invokes a public operation (lines 102, 175, 247), some
\* time after the previous one finished
Call(o, kw) ==
    /\ pc = "idle"
    /\ ops < MaxOps
    /\ \E d \in 0..MaxIdle : clock' = clock + d
    /\ ops' = ops + 1
    /\ op' = o
    /\ keyword' = kw
    /\ pc' = FirstStep(o)
    /\ phases' = <<>>
    /\ issued' = <<>>
    /\ error' = "none"
    /\ outcome' = "none"
    /\ result' = <<>>
    /\ raised' = "none"
    /\ trending_searches' = <<>>
    /\ idx' = 0
    /\ keywords' = <<>>
    /\ interest_data' = <<>>
    /\ related_topics' = <<>>
    /\ related_queries' = <<>>
    /\ geo_distribution' = {}
    /\ failed' = {}
    /\ classified' = <<>>
    /\ handler_raised' = "none"
    /\ cooldowns' = 0
    /\ error_time' = 0
    /\ raw_list' = <<>>
    /\ batch_rows' = <<>>
    /\ answers' = {}
    /\ UNCHANGED <<pytrends, fetches_since_gate>>
    /\ UNCHANGED gateVars
    /\ UNCHANGED pureVars

CallTrending == Call("get_trending_keywords", <<>>)
CallDetails == \E kw \in KeywordInputs : Call("get_keyword_details", kw)
CallRelated == \E kw \in KeywordInputs : Call("get_related_keywords", kw)

\* ------------------------------------------------------------ access gate
\* a gate that sleeps for the time already elapsed instead of the time missing
RateLimitSleepTime_Elapsed(now, last) ==
    IF now - last < MinRequestInterval
    THEN now - last
    ELSE 0

\* a gate that never sleeps
RateLimitSleepTime_NoSleep(now, last) == 0

\* _rate_limit, lines 65-68: the argument of time.sleep, 0 when it is not called
RateLimitSleepTime(now, last) ==
    IF now - last < MinRequestInterval
    THEN MinRequestInterval - (now - last)
    ELSE 0

\* _rate_limit, lines 64-70: read the clock, sleep if the last request is recent;
\* time.sleep returns no earlier than asked
RateLimitCheck ==
    /\ pc = "rate_limit"
    /\ current_time' = clock
    /\ sleep_time' = RateLimitSleepTime(clock, last_request_time)
    /\ \E late \in 0..MaxJitter : clock' = clock + sleep_time' + late
    /\ pc' = "rate_stamp"
    /\ UNCHANGED <<last_request_time, prev_request_time, acquisitions, pytrends,
                   fetches_since_gate>>
    /\ UNCHANGED <<callVars, otherVars, outVars, loopVars, histVars, phases, issued>>

\* _rate_limit, line 72: record the clock read after the sleep
RateLimitStamp ==
    /\ pc = "rate_stamp"
    /\ last_request_time' = clock
    /\ prev_request_time' = last_request_time
    /\ acquisitions' = acquisitions + 1
    /\ fetches_since_gate' = 0
    /\ pc' = "client"
    /\ UNCHANGED <<clock, current_time, sleep_time, pytrends>>
    /\ Emit(<<"gated">>)
    /\ UNCHANGED <<callVars, otherVars, outVars, loopVars, histVars, issued>>

\* ------------------------------------------------------- failure handling
\* an exception leaves the try block of the running operation
Raise(e, site) ==
    /\ error' = e
    /\ failed' = failed \cup {<<site, e>>}
    /\ error_time' = clock
    /\ pc' = "except"
    /\ Emit(IF site = "client" THEN <<"failed">>
            ELSE IF site = "validation" THEN <<"deriving", "failed">>
            ELSE <<"fetching", "failed">>)
    /\ IF site \in {"client", "validation"} THEN UNCHANGED issued
       ELSE Issue(site, 0, FALSE)
    /\ UNCHANGED <<outcome, result, raised, classified, handler_raised, cooldowns>>

\* the running operation returns v
Return(v) ==
    /\ outcome' = "returned"
    /\ result' = v
    /\ pc' = "idle"
    /\ UNCHANGED <<error, raised>>

\* a classifier that logs an unexpected error and returns
HandleRequestError_Swallow(e) ==
    IF e = TooManyRequestsError THEN [sleep |-> QuotaCooldown, raises |-> e]
    ELSE IF e = ResponseError THEN [sleep |-> 0, raises |-> e]
    ELSE [sleep |-> 0, raises |-> "none"]

\* a classifier that backs off on a response error too
HandleRequestError_AlwaysSleep(e) ==
    IF e = TooManyRequestsError THEN [sleep |-> QuotaCooldown, raises |-> e]
    ELSE IF e = ResponseError THEN [sleep |-> QuotaCooldown, raises |-> e]
    ELSE [sleep |-> 0, raises |-> e]

\* _handle_request_error: how long it sleeps and what it raises ("none" would
\* be a normal return)
HandleRequestError(e) ==
    IF e = TooManyRequestsError THEN [sleep |-> QuotaCooldown, raises |-> e]
    ELSE IF e = ResponseError THEN [sleep |-> 0, raises |-> e]
    ELSE [sleep |-> 0, raises |-> e]

\* an except clause that lets the handler's exception through
TrendingOnError_Propagate(e, h) ==
    IF h.raises # "none" THEN [outcome |-> "raised", raised |-> h.raises]
    ELSE [outcome |-> "returned", raised |-> "none"]

\* get_trending_keywords, lines 158-163: whatever the handler does, return []
TrendingOnError(e, h) == [outcome |-> "returned", raised |-> "none"]

\* an except clause that swallows the handler's exception and returns None
DetailsOnError_Swallow(e, h) == [outcome |-> "returned", raised |-> "none"]

\* get_keyword_details, lines 233-235: the handler's exception propagates, and
\* were it to return, the bare raise re-raises the caught one
DetailsOnError(e, h) ==
    [outcome |-> "raised", raised |-> IF h.raises # "none" THEN h.raises ELSE e]

\* an except clause that lets the handler's exception through
RelatedOnError_Propagate(e, h) ==
    IF h.raises # "none" THEN [outcome |-> "raised", raised |-> h.raises]
    ELSE [outcome |-> "returned", raised |-> "none"]

\* get_related_keywords, lines 282-287: whatever the handler does, return []
RelatedOnError(e, h) == [outcome |-> "returned", raised |-> "none"]

\* an except clause that goes back to the client after a quota error
AfterExcept_Retry(o, e) == IF e = TooManyRequestsError THEN "client" ELSE "idle"

\* lines 163, 235 and 287: the except clause ends the operation
AfterExcept(o, e) == "idle"

OnError(o, e, h) ==
    IF o = "get_trending_keywords" THEN TrendingOnError(e, h)
    ELSE IF o = "get_keyword_details" THEN DetailsOnError(e, h)
    ELSE RelatedOnError(e, h)

\* the except clause of the running operation: classify, cool down, finish
Except ==
    /\ pc = "except"
    /\ LET h == HandleRequestError(error)
           o == OnError(op, error, h)
       IN  /\ classified' = Append(classified, error)
           /\ handler_raised' = h.raises
           /\ IF h.sleep > 0
              THEN /\ \E late \in 0..MaxJitter : clock' = clock + h.sleep + late
                   /\ cooldowns' = cooldowns + 1
              ELSE UNCHANGED <<clock, cooldowns>>
           /\ outcome' = o.outcome
           /\ raised' = o.raised
           /\ result' = <<>>
    /\ pc' = AfterExcept(op, error)
    /\ UNCHANGED <<error, failed, error_time, pytrends, fetches_since_gate>>
    /\ UNCHANGED <<gateVars, callVars, otherVars, loopVars, phases, issued>>

\* ----------------------------------------------------------------- client
AfterClient(o) ==
    IF o = "get_trending_keywords" THEN "trending_searches" ELSE "build_payload"

\* _get_pytrends_client, lines 44-60: build the client on first use
GetClient ==
    /\ pc = "client"
    /\ \/ /\ pytrends' = TRUE
          /\ pc' = AfterClient(op)
          /\ UNCHANGED <<outVars, histVars, phases, issued>>
       \/ /\ ~pytrends
          /\ \E e \in ProviderErrors : Raise(e, "client")
          /\ UNCHANGED pytrends
    /\ UNCHANGED <<clock, fetches_since_gate>>
    /\ UNCHANGED <<gateVars, callVars, otherVars, loopVars>>

\* -------------------------------------------------- get_trending_keywords
\* a head that keeps every row
PyHead_All(s, n) == s

\* DataFrame.head(n)
PyHead(s, n) == SubSeq(s, 1, Min(n, Len(s)))

\* lines 109-116: fetch the trending list; nothing found returns []
\* the provider answered the fetch, with or without data
Answered(fetch, empty) ==
    answers' = answers \cup {<<fetch, IF empty THEN "empty" ELSE "data">>}

\* a related_topics or related_queries answer without any row
EmptyRelated(answer) ==
    \/ ~answer.present
    \/ /\ answer.top_none \/ answer.top = <<>>
       /\ answer.rising_none \/ answer.rising = <<>>

TrendingSearchesOf(lists) ==
    /\ pc = "trending_searches"
    /\ fetches_since_gate' = fetches_since_gate + 1
    /\ \/ /\ \E e \in ProviderErrors : Raise(e, "trending_searches")
          /\ UNCHANGED <<loopVars, batchVars>>
       \/ \E raw \in lists :
             /\ raw_list' = raw
             /\ batch_rows' = <<>>
             /\ Answered("trending_searches", raw = <<>>)
             /\ Issue("trending_searches", 0, TRUE)
             /\ IF raw = <<>>
                THEN /\ Return(<<>>)
                     /\ Emit(<<"fetching", "done">>)
                     /\ UNCHANGED <<loopVars, histVars>>
                ELSE /\ trending_searches' = PyHead(raw, TrendingLimit)
                     /\ idx' = 1
                     /\ keywords' = <<>>
                     /\ pc' = "loop"
                     /\ Emit(<<"fetching">>)
                     /\ UNCHANGED <<interest_data, related_topics, related_queries,
                                    geo_distribution, outVars, histVars>>
    /\ UNCHANGED <<clock, pytrends>>
    /\ UNCHANGED <<gateVars, callVars, pureVars>>

TrendingSearches == TrendingSearchesOf(RawLists)

\* a row of the batch as the loop handled it
Row(text, blank, growth_rate, search_volume) ==
    [text |-> text, blank |-> blank, growth_rate |-> growth_rate,
     search_volume |-> search_volume]

\* lines 119-123 and 155-156: next row, skipping blank text; after the last
\* row return the records
TrendingLoop ==
    /\ pc = "loop"
    /\ IF idx > Len(trending_searches)
       THEN /\ Return(keywords)
            /\ Emit(<<"done">>)
            /\ UNCHANGED <<loopVars, batch_rows>>
       ELSE /\ IF Strip(trending_searches[idx]) = <<>>
               THEN /\ idx' = idx + 1
                    /\ pc' = "loop"
                    /\ batch_rows' = Append(batch_rows, Row(trending_searches[idx], TRUE, 0, 0))
               ELSE /\ idx' = idx
                    /\ pc' = "interest"
                    /\ UNCHANGED batch_rows
            /\ UNCHANGED <<trending_searches, keywords, interest_data,
                           related_topics, related_queries, geo_distribution,
                           outVars, phases>>
    /\ UNCHANGED <<clock, pytrends, fetches_since_gate, raw_list, answers, issued>>
    /\ UNCHANGED <<gateVars, callVars, pureVars, histVars>>

\* line 127 and _get_keyword_interest, lines 289-309: any exception of the
\* payload or of the fetch is logged and answered by []
KeywordInterestOf(answered, errors) ==
    /\ pc = "interest"
    /\ \/ /\ interest_data' = <<>>
          /\ \E e \in errors : failed' = failed \cup {<<"interest", e>>}
          /\ \E fetched \in {0, 1} : fetches_since_gate' = fetches_since_gate + fetched
          /\ Issue("interest", idx, FALSE)
       \/ /\ \E raw \in answered : interest_data' = Normalise(raw)
          /\ fetches_since_gate' = fetches_since_gate + 1
          /\ Issue("interest", idx, TRUE)
          /\ UNCHANGED failed
    /\ pc' = "derive"
    /\ Emit(<<"fetching">>)
    /\ UNCHANGED <<clock, pytrends, trending_searches, idx, keywords,
                   related_topics, related_queries, geo_distribution,
                   classified, handler_raised, cooldowns, error_time>>
    /\ UNCHANGED <<gateVars, callVars, otherVars, outVars>>

KeywordInterest == KeywordInterestOf(RawSeries, ProviderErrors)

\* a batch that is emptied by a record failing validation
AppendRecord_ClearOnInvalid(records, rec) ==
    IF rec.raises THEN <<>>
    ELSE Append(records, [keyword |-> rec.keyword,
                          search_volume |-> rec.search_volume,
                          growth_rate |-> rec.growth_rate])

\* lines 138-153: the record joins the batch unless its construction raised
AppendRecord(records, rec) ==
    IF rec.raises THEN records
    ELSE Append(records, [keyword |-> rec.keyword,
                          search_volume |-> rec.search_volume,
                          growth_rate |-> rec.growth_rate])

\* lines 130-153: derive the metrics and build the record; a record that
\* fails validation is logged and skipped
TrendingDerive ==
    /\ pc = "derive"
    /\ \E g \in CalculateGrowthRate(interest_data) :
          /\ keywords' = AppendRecord(keywords,
                             TrendKeyword(Strip(trending_searches[idx]),
                                          EstimateSearchVolume(interest_data), g))
          /\ batch_rows' = Append(batch_rows, Row(trending_searches[idx], FALSE, g,
                                      EstimateSearchVolume(interest_data)))
    /\ idx' = idx + 1
    /\ pc' = "loop"
    /\ Emit(<<"deriving">>)
    /\ UNCHANGED <<clock, pytrends, trending_searches, interest_data,
                   related_topics, related_queries, geo_distribution,
                   fetches_since_gate, raw_list, answers, issued>>
    /\ UNCHANGED <<gateVars, callVars, pureVars, outVars, histVars>>

\* ---------------------------------------------------- get_keyword_details
TopRelated == 10
TopGeo == 10

\* lines 182 and 254: build_payload for the keyword
BuildPayload ==
    /\ pc = "build_payload"
    /\ \/ /\ pc' = IF op = "get_keyword_details" THEN "interest_over_time"
                   ELSE "related_queries"
          /\ Emit(<<"fetching">>)
          /\ Issue("build_payload", 0, TRUE)
          /\ UNCHANGED <<outVars, histVars>>
       \/ \E e \in ProviderErrors : Raise(e, "build_payload")
    /\ UNCHANGED <<clock, pytrends, fetches_since_gate>>
    /\ UNCHANGED <<gateVars, callVars, otherVars, loopVars>>

\* lines 185-193: the interest series, normalised
DetailsInterest ==
    /\ pc = "interest_over_time"
    /\ fetches_since_gate' = fetches_since_gate + 1
    /\ \/ /\ \E raw \in RawSeries :
                /\ interest_data' = Normalise(raw)
                /\ Answered("interest_over_time", raw = <<>>)
          /\ pc' = "related_topics"
          /\ Emit(<<"fetching">>)
          /\ Issue("interest_over_time", 0, TRUE)
          /\ UNCHANGED <<outVars, histVars>>
       \/ /\ \E e \in ProviderErrors : Raise(e, "interest_over_time")
          /\ UNCHANGED answers
          /\ UNCHANGED interest_data
    /\ UNCHANGED <<clock, pytrends, trending_searches, idx, keywords,
                   related_topics, related_queries, geo_distribution>>
    /\ UNCHANGED <<gateVars, callVars, pureVars, raw_list, batch_rows>>

\* lines 198-200 and 205-207: the first ten titles of the top frame, if any
TopTitles(answer) ==
    IF answer.present /\ ~answer.top_none THEN PyHead(answer.top, TopRelated)
    ELSE <<>>

\* lines 196-200
DetailsTopics ==
    /\ pc = "related_topics"
    /\ fetches_since_gate' = fetches_since_gate + 1
    /\ \/ /\ \E answer \in RelatedAnswers :
                /\ related_topics' = TopTitles(answer)
                /\ Answered("related_topics", EmptyRelated(answer))
          /\ pc' = "related_queries"
          /\ Emit(<<"fetching">>)
          /\ Issue("related_topics", 0, TRUE)
          /\ UNCHANGED <<outVars, histVars>>
       \/ /\ \E e \in ProviderErrors : Raise(e, "related_topics")
          /\ UNCHANGED answers
          /\ UNCHANGED related_topics
    /\ UNCHANGED <<clock, pytrends, trending_searches, idx, keywords,
                   interest_data, related_queries, geo_distribution>>
    /\ UNCHANGED <<gateVars, callVars, pureVars, raw_list, batch_rows>>

\* lines 203-207
DetailsQueries ==
    /\ pc = "related_queries"
    /\ op = "get_keyword_details"
    /\ fetches_since_gate' = fetches_since_gate + 1
    /\ \/ /\ \E answer \in RelatedAnswers :
                /\ related_queries' = TopTitles(answer)
                /\ Answered("related_queries", EmptyRelated(answer))
          /\ pc' = "interest_by_region"
          /\ Emit(<<"fetching">>)
          /\ Issue("related_queries", 0, TRUE)
          /\ UNCHANGED <<outVars, histVars>>
       \/ /\ \E e \in ProviderErrors : Raise(e, "related_queries")
          /\ UNCHANGED answers
          /\ UNCHANGED related_queries
    /\ UNCHANGED <<clock, pytrends, trending_searches, idx, keywords,
                   interest_data, related_topics, geo_distribution>>
    /\ UNCHANGED <<gateVars, callVars, pureVars, raw_list, batch_rows>>

\* lines 212-215: the positive rows among the ten largest
GeoDistribution(rows) ==
    LET top_geo == IF Cardinality(rows) <= TopGeo THEN rows
                   ELSE CHOOSE t \in SUBSET rows :
                          /\ Cardinality(t) = TopGeo
                          /\ \A a \in t, b \in rows \ t : a[2] >= b[2]
    IN  {r \in top_geo : r[2] > 0}

\* lines 210-215
DetailsRegion ==
    /\ pc = "interest_by_region"
    /\ fetches_since_gate' = fetches_since_gate + 1
    /\ \/ /\ \E rows \in GeoAnswers :
                /\ geo_distribution' = GeoDistribution(rows)
                /\ Answered("interest_by_region", rows = {})
          /\ pc' = "assemble"
          /\ Emit(<<"fetching">>)
          /\ Issue("interest_by_region", 0, TRUE)
          /\ UNCHANGED <<outVars, histVars>>
       \/ /\ \E e \in ProviderErrors : Raise(e, "interest_by_region")
          /\ UNCHANGED answers
          /\ UNCHANGED geo_distribution
    /\ UNCHANGED <<clock, pytrends, trending_searches, idx, keywords,
                   interest_data, related_topics, related_queries>>
    /\ UNCHANGED <<gateVars, callVars, pureVars, raw_list, batch_rows>>

\* a record that is built without any validation
KeywordDetails_Unvalidated(kw, search_volume, series_, topics, queries, geo) ==
    [raises |-> FALSE, keyword |-> kw, search_volume |-> search_volume,
     interest_over_time |-> series_, related_topics |-> topics,
     related_queries |-> queries, geo_distribution |-> geo]

\* KeywordDetails(...).__post_init__: raises ValueError, or yields the record
KeywordDetails(kw, search_volume, series_, topics, queries, geo) ==
    IF ValidateKeyword(kw).raises \/ ValidateSearchVolumeRaises(search_volume)
    THEN [raises |-> TRUE, keyword |-> <<>>, search_volume |-> 0,
          interest_over_time |-> <<>>, related_topics |-> <<>>,
          related_queries |-> <<>>, geo_distribution |-> {}]
    ELSE [raises |-> FALSE, keyword |-> ValidateKeyword(kw).value,
          search_volume |-> search_volume, interest_over_time |-> series_,
          related_topics |-> topics, related_queries |-> queries,
          geo_distribution |-> geo]

\* lines 217-231: estimate the volume, build and return the record; a
\* validation error is an exception like any other
DetailsAssemble ==
    /\ pc = "assemble"
    /\ LET rec == KeywordDetails(keyword, EstimateSearchVolume(interest_data),
                                 interest_data, related_topics, related_queries,
                                 geo_distribution)
       IN  IF rec.raises
           THEN Raise(ValueError, "validation")
           ELSE /\ Return(<<rec>>)
                /\ Emit(<<"deriving", "done">>)
                /\ UNCHANGED <<histVars, issued>>
    /\ UNCHANGED <<clock, pytrends, fetches_since_gate>>
    /\ UNCHANGED <<gateVars, callVars, otherVars, loopVars>>

\* --------------------------------------------------- get_related_keywords
TopQueries == 15
RisingQueries == 10
RelatedLimit == 20

ToSet(s) == {s[i] : i \in 1..Len(s)}

\* every order of a set
AllOrders(S) ==
    {f \in [1..Cardinality(S) -> S] : \A i, j \in 1..Cardinality(S) : i # j => f[i] # f[j]}

RECURSIVE SetToSeq(_)
SetToSeq(S) ==
    IF S = {} THEN <<>>
    ELSE LET x == CHOOSE y \in S : TRUE IN <<x>> \o SetToSeq(S \ {x})

RECURSIVE GCD(_, _)
GCD(a, b) == IF b = 0 THEN a ELSE GCD(b, a % b)

\* the sequence s read from offset b in steps of a, wrapping around
Stride(s, a, b) == [i \in 1..Len(s) |-> s[(((i - 1) * a + b) % Len(s)) + 1]]

\* list(set(...)): the elements once each, in an order the hash decides.
\* Sets of up to MaxPermuted elements take every order; larger ones take
\* every rotation of each of their strides up to MaxStride.
Orderings(S) ==
    IF Cardinality(S) <= MaxPermuted THEN AllOrders(S)
    ELSE {Stride(SetToSeq(S), a, b) :
             a \in {x \in 1..MaxStride : GCD(x, Cardinality(S)) = 1},
             b \in 0..(Cardinality(S) - 1)}

\* list.remove(x) on a list without duplicates
RECURSIVE Remove(_, _)
Remove(s, x) ==
    IF s = <<>> THEN <<>>
    ELSE IF Head(s) = x THEN Tail(s)
    ELSE <<Head(s)>> \o Remove(Tail(s), x)

\* lines 258-269: the first top queries followed by the first rising ones
RelatedHeads(answer) ==
    LET top_queries == IF answer.present /\ ~answer.top_none
                       THEN PyHead(answer.top, TopQueries) ELSE <<>>
        rising_queries == IF answer.present /\ ~answer.rising_none
                          THEN PyHead(answer.rising, RisingQueries) ELSE <<>>
    IN  top_queries \o rising_queries

\* a dedupe step that never truncates
DedupeStep_NoCap(related_keywords, kw) ==
    {Remove(o, kw) : o \in Orderings(ToSet(related_keywords))}

\* a dedupe step that always leaves the last entry out
DedupeStep_DropLast(related_keywords, kw) ==
    {PyHead(Remove(o, kw), Min(RelatedLimit, Len(Remove(o, kw)) - 1)) :
        o \in Orderings(ToSet(related_keywords))}

\* lines 271-277: the lists the set, remove and truncate steps can leave
DedupeStep(related_keywords, kw) ==
    {PyHead(Remove(o, kw), RelatedLimit) :
        o \in Orderings(ToSet(related_keywords))}

\* lines 258-277: the lists get_related_keywords can return for an answer
DedupeRelated(answer, kw) == DedupeStep(RelatedHeads(answer), kw)

\* lines 257-280
RelatedQueries ==
    /\ pc = "related_queries"
    /\ op = "get_related_keywords"
    /\ fetches_since_gate' = fetches_since_gate + 1
    /\ \/ /\ \E answer \in RelatedAnswers :
                \E related_keywords \in DedupeRelated(answer, keyword) :
                   Return(related_keywords)
          /\ Emit(<<"fetching", "deriving", "done">>)
          /\ Issue("related_queries", 0, TRUE)
          /\ UNCHANGED histVars
       \/ \E e \in ProviderErrors : Raise(e, "related_queries")
    /\ UNCHANGED <<clock, pytrends>>
    /\ UNCHANGED <<gateVars, callVars, otherVars, loopVars>>

Next ==
    \/ CallTrending
    \/ CallDetails
    \/ CallRelated
    \/ RateLimitCheck
    \/ RateLimitStamp
    \/ GetClient
    \/ Except
    \/ TrendingSearches
    \/ TrendingLoop
    \/ KeywordInterest
    \/ TrendingDerive
    \/ BuildPayload
    \/ DetailsInterest
    \/ DetailsTopics
    \/ DetailsQueries
    \/ DetailsRegion
    \/ DetailsAssemble
    \/ RelatedQueries

Spec == Init /\ [][Next]_vars

\* ------------------------------------------ metric derivation on its own
\* the series the derivation is applied to: every series of up to MaxLen
\* interest values drawn from SampleValues, and the series of the unit tests
SampleValues == {0, 1, 100}
TestNormal == <<40, 45, 50, 55, 60, 65, 70, 75>>
TestZeroPrevious == <<0, 0, 0, 0, 50, 60, 70, 80>>
TestHalfway == <<8, 8, 8, 8, 8, 8, 8, 9>>
TestVolume == <<50, 60, 70>>
SeriesInputs ==
    UNION {[1..n -> SampleValues] : n \in 0..MaxLen}
    \cup {TestNormal, TestZeroPrevious, TestHalfway, TestVolume}

InitMetrics ==
    /\ series \in SeriesInputs
    /\ growth = NoGrowth
    /\ volume = NoVolume
    /\ clock = 0
    /\ CollectorAtRest
    /\ ops = 0
    /\ NotMetricsAtRest

\* _calculate_growth_rate(series) is called
CalcGrowth ==
    /\ growth = NoGrowth
    /\ growth' \in CalculateGrowthRate(series)
    /\ UNCHANGED <<series, volume, collectorVars, notMetricVars>>

\* _estimate_search_volume(series) is called
CalcVolume ==
    /\ volume = NoVolume
    /\ volume' = EstimateSearchVolume(series)
    /\ UNCHANGED <<series, growth, collectorVars, notMetricVars>>

NextMetrics ==
    \/ CalcGrowth
    \/ CalcVolume

SpecMetrics == InitMetrics /\ [][NextMetrics]_vars

\* ------------------------------------- from the interest frame to the growth
\* the keyword column of the frames interest_over_time() answers (no row
\* for an empty frame or one without the column): up to MaxFrame rows, a value missing here and there, the last row possibly
\* flagged isPartial
FrameValues == {NaN, 0, 1, 100}
Frames == UNION {[1..n -> FrameValues] : n \in 0..MaxFrame}

InitFrame ==
    /\ interest_df \in Frames
    /\ is_partial \in {p \in BOOLEAN : p => interest_df # <<>>}
    /\ interest_pc = "fetched"
    /\ clock = 0
    /\ CollectorAtRest
    /\ ops = 0
    /\ MetricsAtRest /\ DedupeAtRest /\ RecordAtRest /\ DbAtRest /\ ReportAtRest
    /\ LaterAtRest

\* lines 296-305 (and 186-193): one point per row of the frame, whatever its
\* isPartial column says
FrameIterrows ==
    /\ interest_pc = "fetched"
    /\ series' = Normalise(interest_df)
    /\ interest_pc' = "normalised"
    /\ UNCHANGED <<growth, volume, interest_df, is_partial, collectorVars,
                   notFrameVars>>

\* line 130: the growth rate of the points returned
FrameGrowth == interest_pc = "normalised" /\ CalcGrowth

NextFrame ==
    \/ FrameIterrows
    \/ FrameGrowth

SpecFrame == InitFrame /\ [][NextFrame]_vars

\* ================================================================ claims
Trending == "get_trending_keywords"
Details == "get_keyword_details"
Related == "get_related_keywords"

\* the operation o has finished
Done(o) == pc = "idle" /\ op = o /\ outcome # "none"

FailedCalls == {f[1] : f \in failed}

C2_DetailsRaisesSame ==
    (Done(Details) /\ failed # {})
       => /\ outcome = "raised"
          /\ result = <<>>
          /\ \A f \in failed : raised = f[2]

C2_Witness ==
    /\ Done(Details)
    /\ <<"interest_by_region", ResponseError>> \in failed
    /\ outcome = "raised"
    /\ raised = ResponseError

\* C3: get_related_keywords never raises to its caller, and any failure of
\* its client or provider steps makes it return the empty list
C3_RelatedNeverRaises ==
    /\ op = Related => (outcome # "raised" /\ raised = "none")
    /\ (Done(Related) /\ failed # {}) => (outcome = "returned" /\ result = <<>>)

C3_Witness ==
    /\ Done(Related)
    /\ <<"build_payload", TooManyRequestsError>> \in failed
    /\ outcome = "returned"
    /\ result = <<>>

\* C4: under the serial caller two consecutive gate acquisitions are at least
\* MinRequestInterval apart; a call arriving earlier sleeps for exactly the
\* time missing, a later call does not sleep, and the timestamp recorded is
\* the clock read after the sleep
C4_GateSpacing ==
    /\ acquisitions >= 2 => last_request_time - prev_request_time >= MinRequestInterval
    /\ pc = "rate_stamp" =>
          /\ current_time - last_request_time < MinRequestInterval
                => /\ sleep_time = MinRequestInterval - (current_time - last_request_time)
                   /\ clock >= current_time + sleep_time
          /\ current_time - last_request_time >= MinRequestInterval => sleep_time = 0
    /\ pc = "client" =>
          /\ last_request_time = clock
          /\ last_request_time >= current_time + sleep_time

C4_Witness ==
    /\ acquisitions = 2
    /\ pc = "client"
    /\ sleep_time > 0
    /\ last_request_time - prev_request_time = MinRequestInterval

\* C5 as stated: every provider fetch is preceded by its own gate acquisition
C5_GateBeforeEveryFetch == fetches_since_gate <= 1

\* C6: the classifier never returns normally, it raises the error it was given
C6_ClassifierReraises ==
    /\ classified # <<>> => (handler_raised # "none" /\ handler_raised = classified[Len(classified)])
    /\ Len(classified) <= 1
    /\ (pc = "idle" /\ classified # <<>>) => handler_raised = error

C6_Witness ==
    /\ pc = "idle"
    /\ classified = <<OtherError>>
    /\ handler_raised = OtherError

RECURSIVE SumRange(_, _, _)
SumRange(s, a, b) == IF a > b THEN 0 ELSE s[a] + SumRange(s, a + 1, b)

RecentSum == SumRange(series, Len(series) - 3, Len(series))
PreviousFirst == Max(1, Len(series) - 7)
PreviousSum == SumRange(series, PreviousFirst, Len(series) - 4)
PreviousLen == Len(series) - 4 - PreviousFirst + 1
Abs(x) == IF x < 0 THEN 0 - x ELSE x

\* C8: a series of fewer than 2 points has growth rate 0.0
C8_ShortSeriesZero == (growth # NoGrowth /\ Len(series) < 2) => growth = 0

C8_Witness == Len(series) = 1 /\ series[1] = 100 /\ growth = 0

\* C9: when the previous window is non-empty and averages 0, the growth rate
\* is 100.0 if the recent window holds a positive value and 0.0 if it is all
\* zeros
C9_ZeroPrevious ==
    (growth # NoGrowth /\ Len(series) >= 5 /\ PreviousSum = 0)
       => growth = IF \E i \in (Len(series) - 3)..Len(series) : series[i] > 0
                   THEN 100 * 100 ELSE 0

C9_Witness == series = TestZeroPrevious /\ growth = 100 * 100

Query(n) == << <<"q", n>> >>
\* the queries "q" * from, "q" * (from + 1), ... : len of them
QueryRun(from, len) == [i \in 1..len |-> Query(from + i - 1)]

\* the column lengths around a head(n) limit
Around(n) == (n - 1)..(n + MaxOver)

\* related_queries answers whose columns reach beyond the head limits, with
\* and without entries in common, plus short ones with a repeated entry
DedupeTops ==
    {QueryRun(1, n) : n \in Around(TopQueries)}
    \cup {<<Query(1), Query(1), Query(2)>>}
DedupeRisings ==
    {QueryRun(from, n) : from \in {TopQueries - 1, 101}, n \in Around(RisingQueries)}
    \cup {<<>>, <<Query(2), Query(3)>>}
DedupeAnswers ==
    {[present |-> TRUE, top_none |-> FALSE, top |-> t,
      rising_none |-> FALSE, rising |-> r] : t \in DedupeTops, r \in DedupeRisings}
    \cup {[present |-> TRUE, top_none |-> TRUE, top |-> <<>>,
           rising_none |-> FALSE, rising |-> r] : r \in DedupeRisings}
    \cup {[present |-> TRUE, top_none |-> FALSE, top |-> t,
           rising_none |-> TRUE, rising |-> <<>>] : t \in DedupeTops}
    \cup {[present |-> FALSE, top_none |-> TRUE, top |-> <<>>,
           rising_none |-> TRUE, rising |-> <<>>]}
DedupeKeywords == {Query(1), Query(TopQueries + 1), KwPlain}

InitRelated ==
    /\ dd_answer \in DedupeAnswers
    /\ dd_keyword \in DedupeKeywords
    /\ dd_out = <<>>
    /\ dd_again = <<>>
    /\ dd_pc = "start"
    /\ clock = 0
    /\ CollectorAtRest
    /\ ops = 0
    /\ NotDedupeAtRest

\* lines 258-277 of get_related_keywords run on the answer
DedupeOnce ==
    /\ dd_pc = "start"
    /\ dd_out' \in DedupeRelated(dd_answer, dd_keyword)
    /\ dd_pc' = "once"
    /\ UNCHANGED <<dd_answer, dd_keyword, dd_again, collectorVars, notDedupeVars>>

\* lines 271-277 run once more, on the list they produced
DedupeAgain ==
    /\ dd_pc = "once"
    /\ dd_again' \in DedupeStep(dd_out, dd_keyword)
    /\ dd_pc' = "twice"
    /\ UNCHANGED <<dd_answer, dd_keyword, dd_out, collectorVars, notDedupeVars>>

NextRelated ==
    \/ DedupeOnce
    \/ DedupeAgain

SpecRelated == InitRelated /\ [][NextRelated]_vars

\* ------------------------------------------------- trending batches alone
\* a long list with an entry carrying markup and a blank one near its head
MixedRun ==
    [i \in 1..(TrendingLimit + 1) |->
        IF i = 1 THEN KwMarkup ELSE IF i = 2 THEN KwBlank ELSE Query(i)]

\* what trending_searches answers: every short list of plain, padded, blank,
\* marked-up and overlong entries, and lists around the head(20) limit
BatchLists ==
    UNION {[1..n -> RawEntries \cup {KwLong}] : n \in 0..MaxBatch}
    \cup {QueryRun(1, n) : n \in Around(TrendingLimit)}
    \cup {MixedRun}

\* interest series: none, one with a missing sample, and one whose growth is
\* 39900 percent
Steady == <<50, NaN, 70>>
Surge == <<0, 0, 0, 1, 100, 100, 100, 100>>
BatchSeries == {<<>>, Steady, Surge}

\* the collector before the last call of the budget
InitBatch ==
    /\ clock = 0
    /\ CollectorAtRest
    /\ ops = MaxOps - 1
    /\ PureAtRest

TrendingSearchesBatch == TrendingSearchesOf(BatchLists)

\* the provider answers the interest fetch of the first MaxVaried rows with
\* any series or a failure, and of the later rows with the steady series
KeywordInterestBatch ==
    IF idx <= MaxVaried THEN KeywordInterestOf(BatchSeries, {ResponseError})
    ELSE KeywordInterestOf({Steady}, {})

NextBatch ==
    \/ CallTrending
    \/ RateLimitCheck
    \/ RateLimitStamp
    \/ GetClient
    \/ Except
    \/ TrendingSearchesBatch
    \/ TrendingLoop
    \/ KeywordInterestBatch
    \/ TrendingDerive

SpecBatch == InitBatch /\ [][NextBatch]_vars
\* ------------------------------------------------- TrendKeyword alone
InitRecord ==
    /\ tk_args \in
          [keyword : KeywordInputs,
           search_volume : {-1, 0, 600000, MaxSearchVolume, MaxSearchVolume + 1},
           growth_rate : {MinGrowthRate - 1, MinGrowthRate, 0, MaxGrowthRate,
                          MaxGrowthRate + 1, NaNRate},
           region : {<< <<"U", 1>>, <<"S", 1>> >>, << <<"u", 1>>, <<"s", 1>> >>,
                     << <<" ", 1>>, <<"U", 1>>, <<"s", 1>>, <<" ", 1>> >>,
                     << <<"U", 1>>, <<"S", 1>>, <<"A", 1>> >>,
                     << <<"U", 1>>, <<"1", 1>> >>, <<>>},
           category : {"all", "sports", "invalid_category"},
           related_keywords : {<<>>, <<KwPlain, KwMarkup, KwPadded>>,
                               <<KwBlank, KwLong>>}]
    /\ tk_rec = NoRecord
    /\ tk_pc = "start"
    /\ clock = 0
    /\ CollectorAtRest
    /\ ops = 0
    /\ NotRecordAtRest

\* TrendKeyword(...) is called
Construct ==
    /\ tk_pc = "start"
    /\ tk_rec' = TrendKeywordInit(tk_args.keyword, tk_args.search_volume,
                                  tk_args.growth_rate, tk_args.region,
                                  tk_args.category, tk_args.related_keywords)
    /\ tk_pc' = "constructed"
    /\ UNCHANGED <<tk_args, collectorVars, notRecordVars>>

NextRecord == Construct

SpecRecord == InitRecord /\ [][NextRecord]_vars
\* ------------------------------------------- DatabaseManager.get_session
InitDb ==
    /\ DbAtRest
    /\ clock = 0
    /\ CollectorAtRest
    /\ ops = 0
    /\ NotDbAtRest

\* lines 123-127: initialise on first use, open a session, enter the block
Enter ==
    /\ db_pc = "idle"
    /\ sessions < MaxSessions
    /\ initialized' = TRUE
    /\ sessions' = sessions + 1
    /\ pending' = {}
    /\ db_pc' = "block"
    /\ db_error' = "none"
    /\ db_outcome' = "none"
    /\ block_exit' = "none"
    /\ block_error' = "none"
    /\ block_writes' = {}
    /\ block_committed' = {}
    /\ commits' = 0
    /\ rollbacks' = 0
    /\ closes' = 0
    /\ UNCHANGED <<store, collectorVars, notDbVars>>

\* the block adds a row of its own to the session
BlockAdd ==
    /\ db_pc = "block"
    /\ Cardinality(block_writes) < MaxBlockSteps
    /\ \E n \in 1..MaxRows :
          /\ <<sessions, n>> \notin block_writes
          /\ pending' = pending \cup {<<sessions, n>>}
          /\ block_writes' = block_writes \cup {<<sessions, n>>}
    /\ UNCHANGED <<initialized, store, sessions, db_pc, db_error, db_outcome,
                   block_exit, block_error, block_committed, commits, rollbacks,
                   closes, collectorVars, notDbVars>>

\* a rollback that flushes the pending rows
SessionRollback_Flush(visible, pend) == visible \cup pend

\* session.rollback(): the rows later sessions see afterwards
SessionRollback(visible, pend) == visible

\* session.commit(): the rows later sessions see afterwards
SessionCommit(visible, pend) == visible \cup pend

\* the block commits by itself, as the migration blocks do
BlockCommit ==
    /\ db_pc = "block"
    /\ pending # {}
    /\ store' = SessionCommit(store, pending)
    /\ block_committed' = block_committed \cup pending
    /\ pending' = {}
    /\ UNCHANGED <<initialized, sessions, db_pc, db_error, db_outcome,
                   block_exit, block_error, block_writes, commits, rollbacks,
                   closes, collectorVars, notDbVars>>

\* the block ends normally: control returns after the yield of line 127
BlockExit ==
    /\ db_pc = "block"
    /\ block_exit' = "normal"
    /\ db_pc' = "commit"
    /\ UNCHANGED <<initialized, store, pending, sessions, db_error, db_outcome,
                   block_error, block_writes, block_committed, commits,
                   rollbacks, closes, collectorVars, notDbVars>>

\* the block raises: the exception is thrown into the generator at line 127
BlockRaise ==
    /\ db_pc = "block"
    /\ \E e \in {"Exception", "ValueError"} : block_error' = e /\ db_error' = e
    /\ block_exit' = "raised"
    /\ db_pc' = "except"
    /\ UNCHANGED <<initialized, store, pending, sessions, db_outcome,
                   block_writes, block_committed, commits, rollbacks, closes,
                   collectorVars, notDbVars>>

\* line 128: session.commit(), which the database may refuse
ExitCommit ==
    /\ db_pc = "commit"
    /\ commits' = commits + 1
    /\ \/ /\ store' = SessionCommit(store, pending)
          /\ pending' = {}
          /\ db_pc' = "finally"
          /\ UNCHANGED db_error
       \/ /\ \E e \in {"IntegrityError"} : db_error' = e
          /\ db_pc' = "except"
          /\ UNCHANGED <<store, pending>>
    /\ UNCHANGED <<initialized, sessions, db_outcome, block_exit, block_error,
                   block_writes, block_committed, rollbacks, closes,
                   collectorVars, notDbVars>>

\* lines 129-132: roll back, log, raise again
ExceptRollback ==
    /\ db_pc = "except"
    /\ store' = SessionRollback(store, pending)
    /\ pending' = {}
    /\ rollbacks' = rollbacks + 1
    /\ db_pc' = "finally"
    /\ UNCHANGED <<initialized, sessions, db_error, db_outcome, block_exit,
                   block_error, block_writes, block_committed, commits, closes,
                   collectorVars, notDbVars>>

\* lines 133-134: close the session, then return or let the exception go on
FinallyClose ==
    /\ db_pc = "finally"
    /\ closes' = closes + 1
    /\ pending' = {}
    /\ db_outcome' = IF db_error = "none" THEN "returned" ELSE "raised"
    /\ db_pc' = "idle"
    /\ UNCHANGED <<initialized, store, sessions, db_error, block_exit,
                   block_error, block_writes, block_committed, commits,
                   rollbacks, collectorVars, notDbVars>>

NextDb ==
    \/ Enter
    \/ BlockAdd
    \/ BlockCommit
    \/ BlockExit
    \/ BlockRaise
    \/ ExitCommit
    \/ ExceptRollback
    \/ FinallyClose

SpecDb == InitDb /\ [][NextDb]_vars
\* ---------------------------------------- TrendsReport.add_recommendation
\* the arguments: "", "  ", "x", " x ", "y" and "x y "
RecPaddedX == << <<" ", 1>>, <<"x", 1>>, <<" ", 1>> >>
RecInputs ==
    {<<>>, << <<" ", 2>> >>, << <<"x", 1>> >>, RecPaddedX, << <<"y", 1>> >>,
     << <<"x", 1>>, <<" ", 1>>, <<"y", 1>>, <<" ", 1>> >>}

InitReport ==
    /\ ReportAtRest
    /\ clock = 0
    /\ CollectorAtRest
    /\ ops = 0
    /\ NotReportAtRest

\* an add_recommendation that looks the argument up before stripping it
AddRecommendationTo_LookupUnstripped(recs, recommendation) ==
    IF recommendation = <<>> THEN [raises |-> TRUE, recommendations |-> recs]
    ELSE IF Strip(recommendation) # <<>> /\ recommendation \notin ToSet(recs)
         THEN [raises |-> FALSE, recommendations |-> Append(recs, Strip(recommendation))]
         ELSE [raises |-> FALSE, recommendations |-> recs]

\* add_recommendation, lines 353-360, on a str argument: ValueError, or the
\* list afterwards
AddRecommendationTo(recs, recommendation) ==
    IF recommendation = <<>> THEN [raises |-> TRUE, recommendations |-> recs]
    ELSE IF Strip(recommendation) # <<>> /\ Strip(recommendation) \notin ToSet(recs)
         THEN [raises |-> FALSE, recommendations |-> Append(recs, Strip(recommendation))]
         ELSE [raises |-> FALSE, recommendations |-> recs]

\* report.add_recommendation(recommendation) is called
AddRecommendation ==
    /\ rp_calls < MaxCalls
    /\ \E recommendation \in RecInputs :
          /\ rp_arg' = recommendation
          /\ rp_raised' = AddRecommendationTo(recommendations, recommendation).raises
          /\ recommendations' =
                AddRecommendationTo(recommendations, recommendation).recommendations
    /\ rp_before' = recommendations
    /\ rp_calls' = rp_calls + 1
    /\ UNCHANGED <<collectorVars, notReportVars>>

NextReport == AddRecommendation

SpecReport == InitReport /\ [][NextReport]_vars

PositiveCount == Cardinality({i \in 1..Len(series) : series[i] > 0})
PositiveSum == SumRange(series, 1, Len(series))

\* C11: the volume estimate is 0 exactly when no sample is positive; otherwise
\* it is the mean of the positive samples times 10000, truncated, and at least
\* 100, so never between 1 and 99; [50,60,70] gives 600000, [1] at least 100,
\* [0,0] gives 0
C11_VolumeEstimate ==
    volume # NoVolume =>
       /\ (volume = 0) <=> (PositiveCount = 0)
       /\ volume \notin 1..99
       /\ PositiveCount > 0 =>
             /\ volume >= 100
             /\ volume > 100 =>
                   /\ volume * PositiveCount <= PositiveSum * 10000
                   /\ PositiveSum * 10000 < (volume + 1) * PositiveCount
             /\ volume = 100 => PositiveSum * 10000 < 101 * PositiveCount
       /\ series = TestVolume => volume = 600000
       /\ series = <<1>> => volume >= 100
       /\ series = <<0, 0>> => volume = 0

C11_Witness == series = TestVolume /\ volume = 600000

\* the entries get_related_keywords may draw from: the first 15 top queries
\* and the first 10 rising queries of the answer
FromTop(q) ==
    /\ dd_answer.present /\ ~dd_answer.top_none
    /\ \E j \in 1..15 : j <= Len(dd_answer.top) /\ dd_answer.top[j] = q
FromRising(q) ==
    /\ dd_answer.present /\ ~dd_answer.rising_none
    /\ \E j \in 1..10 : j <= Len(dd_answer.rising) /\ dd_answer.rising[j] = q

\* C12: the related-keyword list never contains the keyword, contains no
\* string twice, has at most 20 entries, and every entry is one of the first
\* 15 top queries or of the first 10 rising queries
C12_RelatedList ==
    dd_pc # "start" =>
       /\ \A i \in 1..Len(dd_out) : dd_out[i] # dd_keyword
       /\ \A i, j \in 1..Len(dd_out) : i # j => dd_out[i] # dd_out[j]
       /\ Len(dd_out) <= 20
       /\ \A i \in 1..Len(dd_out) : FromTop(dd_out[i]) \/ FromRising(dd_out[i])

C12_Witness ==
    /\ dd_pc = "once"
    /\ Len(dd_out) = 20
    /\ FromTop(dd_keyword)
    /\ Len(dd_answer.top) > 15
    /\ \E q \in ToSet(dd_answer.top) : FromTop(q) /\ FromRising(q)

\* C13: applying the set, remove-keyword and truncate-to-20 step to its own
\* output gives the same set of entries
C13_DedupeIdempotent ==
    dd_pc = "twice" => ToSet(dd_again) = ToSet(dd_out)

C13_Witness ==
    /\ dd_pc = "twice"
    /\ Len(dd_out) = 20
    /\ dd_again # dd_out
    /\ Cardinality(ToSet(RelatedHeads(dd_answer))) > 21

\* the batch has run to the end of the loop
BatchDone ==
    /\ Done(Trending)
    /\ outcome = "returned"
    /\ FailedCalls \cap {"client", "trending_searches"} = {}
    /\ raw_list # <<>>

\* the text of a row, with its derived fields, makes a valid record
TextBlank(text) == \A i \in 1..Len(text) : text[i][1] = " "
TextForbidden(text) == \E i \in 1..Len(text) : text[i][1] \in {"<", ">", "\"", "'"}
RowValid(row) ==
    /\ ~row.blank
    /\ ~TextBlank(row.text)
    /\ ~TextForbidden(row.text)
    /\ StrLen(Strip(row.text)) <= 100
    /\ row.growth_rate >= -100 * 100 /\ row.growth_rate <= 10000 * 100
    /\ row.search_volume >= 0 /\ row.search_volume <= 1000000000
ValidRows == SelectSeq(batch_rows, RowValid)

\* C14: a raw entry that is blank or whose record fails validation is
\* skipped without aborting the batch: the result holds one record for each
\* other entry processed, in the provider's order
C14_InvalidSkipped ==
    BatchDone =>
       /\ Len(batch_rows) = Min(20, Len(raw_list))
       /\ \A i \in 1..Len(batch_rows) : batch_rows[i].text = raw_list[i]
       /\ \A i \in 1..Len(batch_rows) : batch_rows[i].blank = TextBlank(raw_list[i])
       /\ Len(result) = Len(ValidRows)
       /\ \A i \in 1..Len(result) :
             /\ result[i].keyword = Strip(ValidRows[i].text)
             /\ result[i].growth_rate = ValidRows[i].growth_rate
             /\ result[i].search_volume = ValidRows[i].search_volume

C14_Witness ==
    /\ BatchDone
    /\ Len(raw_list) = 2
    /\ TextForbidden(raw_list[1])
    /\ Len(result) = 1
    /\ result[1].keyword = Strip(raw_list[2])

\* C15: only the first 20 raw entries are processed: the result has at most
\* min(20, raw length) records, every record's keyword is one of the first 20
\* raw entries, and at most 20 interest fetches are issued
C15_FirstTwenty ==
    /\ (Done(Trending) /\ outcome = "returned") =>
          /\ Len(result) <= Min(20, Len(raw_list))
          /\ \A i \in 1..Len(result) :
                \E j \in 1..20 :
                   j <= Len(raw_list) /\ Strip(raw_list[j]) = result[i].keyword
    /\ (op = Trending /\ pc \in {"loop", "interest", "derive"}) =>
          fetches_since_gate - 1 <= 20
    /\ Done(Trending) => fetches_since_gate <= 1 + 20

C15_Witness ==
    /\ Done(Trending)
    /\ Len(raw_list) > 20
    /\ Len(result) = 20
    /\ fetches_since_gate = 21

\* the keyword rule: stripped, non-empty, at most 100 characters, none of
\* the characters < > " '
KeywordRule(k) ==
    /\ k # <<>>
    /\ k[1][1] # " " /\ k[Len(k)][1] # " "
    /\ StrLen(k) >= 1 /\ StrLen(k) <= 100
    /\ ~TextForbidden(k)

\* C16: every TrendKeyword successfully constructed has a keyword that is
\* stripped, non-empty, at most 100 characters and free of < > " ', a search
\* volume in [0, 1e9], a growth rate in [-100, 10000], a region of two
\* uppercase letters, a category of TrendCategory, and related keywords that
\* all pass the keyword rule
C16_RecordInvariants ==
    (tk_pc = "constructed" /\ ~tk_rec.raises) =>
       /\ KeywordRule(tk_rec.keyword)
       /\ tk_rec.search_volume >= 0 /\ tk_rec.search_volume <= 1000000000
       /\ tk_rec.growth_rate >= -100 * 100 /\ tk_rec.growth_rate <= 10000 * 100
       /\ StrLen(tk_rec.region) = 2
       /\ \A i \in 1..Len(tk_rec.region) : tk_rec.region[i][1] \in UppercaseLetters
       /\ tk_rec.category \in
             {"all", "business", "entertainment", "health", "science_tech",
              "sports", "top_stories"}
       /\ \A i \in 1..Len(tk_rec.related_keywords) :
             KeywordRule(tk_rec.related_keywords[i])

\* the four fetches of get_keyword_details all answered without data
AllEmpty ==
    {<<f, "empty">> : f \in {"interest_over_time", "related_topics",
                              "related_queries", "interest_by_region"}} \subseteq answers

\* the details record returned is the empty one
EmptyDetails ==
    /\ outcome = "returned"
    /\ raised = "none"
    /\ Len(result) = 1
    /\ result[1].interest_over_time = <<>>
    /\ result[1].search_volume = 0
    /\ result[1].related_topics = <<>>
    /\ result[1].related_queries = <<>>
    /\ result[1].geo_distribution = {}

\* an empty trending answer gives the empty list, with no classifier call
\* and no cooldown
EmptyTrending ==
    (Done(Trending) /\ <<"trending_searches", "empty">> \in answers) =>
       /\ outcome = "returned"
       /\ result = <<>>
       /\ classified = <<>>
       /\ handler_raised = "none"
       /\ cooldowns = 0

\* C17 as stated: an empty trending answer makes get_trending_keywords
\* return the empty list without classifier or cooldown, and four empty
\* answers make get_keyword_details return a KeywordDetails with empty
\* series, volume 0, empty related lists and empty geo map
C17_EmptyIsValid ==
    /\ EmptyTrending
    /\ (Done(Details) /\ AllEmpty) => EmptyDetails

\* the keyword passes the keyword rule once stripped
KeywordAccepted(k) ==
    /\ k # <<>>
    /\ ~TextBlank(k)
    /\ ~TextForbidden(k)
    /\ StrLen(Strip(k)) <= 100

\* C17 amended: an empty trending answer makes get_trending_keywords return
\* the empty list without classifier or cooldown, and four empty answers
\* make get_keyword_details, called with a keyword that passes validation,
\* return a KeywordDetails with empty series, volume 0, empty related lists
\* and empty geo map
C17_EmptyIsValidForValidKeyword ==
    /\ EmptyTrending
    /\ (Done(Details) /\ AllEmpty /\ KeywordAccepted(keyword)) =>
          (EmptyDetails /\ result[1].keyword = Strip(keyword))

C17_Witness ==
    /\ Done(Details)
    /\ AllEmpty
    /\ KeywordAccepted(keyword)
    /\ EmptyDetails
    /\ classified = <<>>

\* the with statement over get_session has ended
SessionOver == db_pc = "idle" /\ sessions > 0

\* C18 as stated: a block that exits normally is committed and its writes
\* are visible later; a block that raises is rolled back, none of its writes
\* is visible later, and its exception reaches the caller; either way the
\* session is closed exactly once
C18_Transactional ==
    SessionOver =>
       /\ block_exit = "normal" =>
             /\ db_outcome = "returned"
             /\ block_writes \subseteq store
       /\ block_exit = "raised" =>
             /\ rollbacks = 1
             /\ block_writes \cap store = {}
             /\ db_outcome = "raised" /\ db_error = block_error
       /\ closes = 1

\* C18 amended: a block that exits normally is committed, and if that
\* commit succeeds its writes are visible later; if the block raises or the
\* commit fails, the session is rolled back, the writes the block did not
\* commit itself are not visible later, and the exception reaches the
\* caller; in every case the session is closed exactly once
C18_TransactionalUnlessCommitFails ==
    SessionOver =>
       /\ block_exit = "normal" =>
             /\ commits = 1
             /\ db_outcome = "returned" =>
                   (block_writes \subseteq store /\ rollbacks = 0)
             /\ db_outcome = "raised" =>
                   /\ rollbacks = 1
                   /\ (block_writes \ block_committed) \cap store = {}
                   /\ db_error \in {"IntegrityError"}
       /\ block_exit = "raised" =>
             /\ commits = 0
             /\ rollbacks = 1
             /\ (block_writes \ block_committed) \cap store = {}
             /\ db_outcome = "raised" /\ db_error = block_error
       /\ block_exit \in {"normal", "raised"}
       /\ block_committed \subseteq store
       /\ closes = 1

C18_Witness ==
    /\ SessionOver
    /\ block_exit = "normal"
    /\ db_outcome = "raised"
    /\ block_writes # {}
    /\ block_writes \cap store = {}
    /\ rollbacks = 1
    /\ closes = 1

\* the text with the blanks at its ends removed
Stripped(text) == text # <<>> /\ text[1][1] # " " /\ text[Len(text)][1] # " "
Present(text) ==
    \E i \in 1..Len(rp_before) :
       \E lead, trail \in {<<>>, << <<" ", 1>> >>} :
          lead \o rp_before[i] \o trail = text

\* C19: the recommendations never hold two equal entries and hold each
\* entry stripped; adding a recommendation already present leaves the list
\* unchanged, and adding the empty string raises and leaves the list
\* unchanged
C19_Recommendations ==
    /\ \A i, j \in 1..Len(recommendations) :
          i # j => recommendations[i] # recommendations[j]
    /\ \A i \in 1..Len(recommendations) : Stripped(recommendations[i])
    /\ rp_calls > 0 =>
          /\ Present(rp_arg) => (recommendations = rp_before /\ ~rp_raised)
          /\ rp_arg = <<>> => (rp_raised /\ recommendations = rp_before)

C19_Witness ==
    /\ rp_calls > 1
    /\ rp_arg = RecPaddedX
    /\ Present(rp_arg)
    /\ recommendations = rp_before
    /\ Len(recommendations) > 1

\* the positions of a phase in the history
At(phase) == {i \in 1..Len(phases) : phases[i] = phase}
Terminal == At("done") \cup At("failed")

\* C20: the gate acquisition completes before the first provider call,
\* derivation and assembly come only after the fetch they depend on has
\* come back, and an invocation ends in exactly one terminal phase, done or
\* failed, never both
C20_PhaseOrder ==
    /\ phases # <<>> => phases[1] = "gated"
    /\ Cardinality(At("gated")) <= 1
    /\ \A i \in At("fetching") : \E j \in At("gated") : j < i
    /\ \A i \in At("deriving") : i > 1 /\ phases[i - 1] = "fetching"
    /\ op = Details =>
          \A i \in At("deriving") : Cardinality({j \in At("fetching") : j < i}) = 5
    /\ Cardinality(Terminal) <= 1
    /\ \A i \in Terminal : i = Len(phases)
    /\ (pc = "idle" /\ op # "none") =>
          /\ Cardinality(Terminal) = 1
          /\ At("done") # {} => (outcome = "returned" /\ failed \subseteq {f \in failed : f[1] = "interest"})
          /\ At("failed") # {} =>
                IF op = Details THEN outcome = "raised"
                ELSE outcome = "returned" /\ result = <<>>
    /\ (pc # "idle" /\ pc # "except") => Terminal = {}

C20_Witness ==
    /\ Done(Details)
    /\ phases = <<"gated", "fetching", "fetching", "fetching", "fetching",
                  "fetching", "deriving", "done">>
    /\ outcome = "returned"

\* the errors the classifier was handed
Classified == {classified[i] : i \in 1..Len(classified)}

\* C21: when an operation has ended, every error a provider call raised in it
\* went through the classifier, and a quota error among them cost a cooldown
C21_EveryErrorClassified ==
    (pc = "idle" /\ outcome # "none") =>
       /\ \A f \in failed : f[2] \in Classified
       /\ (\E f \in failed : f[2] = TooManyRequestsError) => cooldowns >= 1

\* the same call on the client, for the same row
SameCall(a, b) == a[1] = b[1] /\ a[2] = b[2]

\* C22: a call that raised is not issued again within the operation; in
\* get_keyword_details and get_related_keywords the call that raised is the
\* last one issued; and nothing is issued during or after a quota cooldown
C22_NeverRetried ==
    /\ \A i, j \in 1..Len(issued) :
          (i < j /\ ~issued[i][3]) => ~SameCall(issued[i], issued[j])
    /\ op \in {Details, Related} =>
          \A i \in 1..Len(issued) : ~issued[i][3] => i = Len(issued)
    /\ cooldowns > 0 => (issued = <<>> \/ ~issued[Len(issued)][3])

C22_Witness ==
    /\ Done(Details)
    /\ cooldowns = 1
    /\ issued = << <<"build_payload", 0, TRUE>>, <<"interest_over_time", 0, TRUE>>,
                   <<"related_topics", 0, FALSE>> >>

\* the points before the last four, and the last four
BeforeLastFour == SubSeq(series, 1, Len(series) - 4)
LastFour == SubSeq(series, Len(series) - 3, Len(series))

\* C23: a series of 2 to 4 points has no previous window and a growth rate of
\* 0.0 whatever its values; for 5 to 7 points the previous window is the 1 to
\* 3 points before the last four, averaged over their own number
C23_ShortPreviousWindow ==
    /\ (growth # NoGrowth /\ Len(series) \in 2..4) => growth = 0
    /\ (growth # NoGrowth /\ Len(series) \in 5..7) =>
          LET sp == SumSeq(BeforeLastFour)
              sr == SumSeq(LastFour)
              np == Len(BeforeLastFour)
          IN  /\ np = Len(series) - 4
              /\ IF sp = 0 THEN growth = (IF sr > 0 THEN 100 * 100 ELSE 0)
                 ELSE 2 * Abs(growth * (sp * 4) - 10000 * (sr * np - sp * 4)) <= sp * 4

C23_Witness == series = <<1, 100, 100, 100, 100>> /\ growth = 9900 * 100

\* C24: when the last row of the frame is flagged partial, the growth rate is
\* that of the series without its last point
C24_PartialExcluded ==
    (growth # NoGrowth /\ is_partial) =>
       growth \in CalculateGrowthRate(SubSeq(series, 1, Len(series) - 1))

\* C25: the normalised series has one point per row of the frame, in the
\* order of the rows: 0 where the value is missing, the value itself elsewhere
C25_Normalisation ==
    interest_pc = "normalised" =>
       /\ Len(series) = Len(interest_df)
       /\ \A i \in 1..Len(interest_df) :
             series[i] = IF interest_df[i] = NaN THEN 0 ELSE interest_df[i]

C25_Witness ==
    /\ interest_pc = "normalised"
    /\ interest_df = <<100, NaN, 1>>
    /\ series = <<100, 0, 1>>

\* the text of a row makes a valid keyword
TextValid(row) ==
    /\ ~row.blank
    /\ ~TextBlank(row.text)
    /\ ~TextForbidden(row.text)
    /\ StrLen(Strip(row.text)) <= MaxKeywordLen

\* C26: the growth rate and the volume derived for a row always pass the
\* record validation, so the result holds a record for every row whose text
\* is valid
C26_DerivedMetricsValid ==
    /\ \A i \in 1..Len(batch_rows) :
          ~batch_rows[i].blank =>
             /\ ~ValidateGrowthRateRaises(batch_rows[i].growth_rate)
             /\ ~ValidateSearchVolumeRaises(batch_rows[i].search_volume)
    /\ BatchDone => Len(result) = Len(SelectSeq(batch_rows, TextValid))

\* -------------------------------- two callers of _rate_limit on one collector
\* what the collector holds besides the clock and the last request time
raceFrame == <<pytrends, ops, op, pc, keyword, current_time, sleep_time,
               prev_request_time, acquisitions, fetches_since_gate, outVars,
               loopVars, histVars, batchVars, phases, issued, notRaceVars>>

InitRace ==
    /\ clock = 0
    /\ CollectorAtRest
    /\ ops = 0
    /\ PureAtRest

\* the caller's locals change
Local(c, locals) == threads' = [threads EXCEPT ![c] = locals]

\* every other caller has returned from _rate_limit
OthersDone(c) == \A o \in Callers \ {c} : threads[o].pc = "done"

\* line 64: current_time = time.time()
RaceReadClock(c) ==
    /\ threads[c].pc = "idle"
    /\ Local(c, [threads[c] EXCEPT !.pc = "compare", !.current_time = clock,
                                   !.after_other = OthersDone(c)])
    /\ UNCHANGED <<clock, last_request_time, raceFrame>>

\* lines 65-68: read the last request time and work out the sleep
RaceCompare(c) ==
    /\ threads[c].pc = "compare"
    /\ LET sleep == RateLimitSleepTime(threads[c].current_time, last_request_time)
       IN  Local(c, [threads[c] EXCEPT !.sleep_time = sleep,
                        !.pc = IF sleep > 0 THEN "sleep" ELSE "stamp"])
    /\ UNCHANGED <<clock, last_request_time, raceFrame>>

\* line 70: time.sleep(sleep_time) is entered
RaceSleep(c) ==
    /\ threads[c].pc = "sleep"
    /\ Local(c, [threads[c] EXCEPT !.pc = "sleeping",
                                   !.wake_at = clock + threads[c].sleep_time])
    /\ UNCHANGED <<clock, last_request_time, raceFrame>>

\* line 72, once the sleep, if any, is over: self._last_request_time = time.time()
RaceStamp(c) ==
    /\ \/ threads[c].pc = "stamp"
       \/ threads[c].pc = "sleeping" /\ clock >= threads[c].wake_at
    /\ last_request_time' = clock
    /\ Local(c, [threads[c] EXCEPT !.pc = "done", !.returned_at = clock])
    /\ UNCHANGED <<clock, raceFrame>>

\* time passes
RaceTick ==
    /\ clock < MaxRaceClock
    /\ clock' = clock + 1
    /\ UNCHANGED <<last_request_time, threads, raceFrame>>

NextRace ==
    \/ \E c \in Callers : RaceReadClock(c)
    \/ \E c \in Callers : RaceCompare(c)
    \/ \E c \in Callers : RaceSleep(c)
    \/ \E c \in Callers : RaceStamp(c)
    \/ RaceTick

SpecRace == InitRace /\ [][NextRace]_vars

\* both callers have returned from _rate_limit
BothReturned == \A c \in Callers : threads[c].pc = "done"
\* one caller entered _rate_limit after the other had returned
SerialUse == \E c \in Callers : threads[c].after_other
ReturnGap == Abs(threads[1].returned_at - threads[2].returned_at)

\* C27: callers that use the gate one after the other return at least
\* MinRequestInterval apart, each having waited out its own sleep; the
\* spacing rests on that serial use alone
C27_SpacingNeedsSerialUse ==
    /\ (BothReturned /\ SerialUse) => ReturnGap >= MinRequestInterval
    /\ \A c \in Callers :
          threads[c].pc = "done" =>
             threads[c].returned_at >= threads[c].current_time + threads[c].sleep_time

\* two callers inside _rate_limit at once return less than MinRequestInterval
\* apart
C27_Witness ==
    /\ BothReturned
    /\ ~SerialUse
    /\ ReturnGap < MinRequestInterval

\* C28: a record of get_keyword_details that fails validation makes the
\* operation raise that ValueError, with no cooldown and no result; a keyword
\* that fails validation never yields a record; and a record returned has a
\* stripped valid keyword, a volume in range and positive intensities
C28_ValidationFatal ==
    /\ (Done(Details) /\ "validation" \in FailedCalls) =>
          /\ outcome = "raised"
          /\ raised = ValueError
          /\ result = <<>>
          /\ cooldowns = 0
    /\ (Done(Details) /\ ~KeywordAccepted(keyword)) => outcome = "raised"
    /\ (pc = "except" /\ "validation" \in FailedCalls) =>
          (op = Details /\ ~KeywordAccepted(keyword))
    /\ (Done(Details) /\ outcome = "returned") =>
          /\ Len(result) = 1
          /\ result[1].keyword = Strip(keyword)
          /\ KeywordRule(result[1].keyword)
          /\ result[1].search_volume >= 0
          /\ result[1].search_volume <= MaxSearchVolume
          /\ \A g \in result[1].geo_distribution : g[2] > 0

C28_Witness ==
    /\ Done(Details)
    /\ keyword = KwMarkup
    /\ failed = {<<"validation", ValueError>>}
    /\ outcome = "raised"
    /\ raised = ValueError

\* ------------------------------------------------------------- migrations
\* the versions '001', '002', '003' in the order _register_migrations lists them
Registered == <<1, 2, 3>>
InitialSchema == 1
AddIndexes == 2
NoTarget == 0

\* SELECT version FROM schema_migrations ORDER BY version
OrderByVersion(recorded) == SelectSeq(Registered, LAMBDA v : v \in recorded)

migrateLocals == <<target_version, applied, mg_idx, success>>
migrateFrame == <<collectorVars, ops, notMigrateVars>>

\* a database whose migration table is missing or empty, with or without the
\* tables of the models
InitMigrate ==
    /\ clock = 0
    /\ CollectorAtRest
    /\ ops = 0
    /\ MetricsAtRest /\ DedupeAtRest /\ RecordAtRest /\ DbAtRest /\ ReportAtRest
    /\ FrameAtRest /\ RaceAtRest
    /\ model_tables \in BOOLEAN
    /\ migration_table \in BOOLEAN
    /\ schema_migrations = {}
    /\ mg_op = "none"
    /\ mg_pc = "idle"
    /\ target_version = NoTarget
    /\ applied = <<>>
    /\ mg_idx = 0
    /\ success = TRUE
    /\ mg_result = "none"
    /\ mg_calls = 0
    /\ mg_before = {}
    /\ mg_log = <<>>

\* migrate_up(), migrate_down(target_version) or reset_database() is called
MigrateCall(f, target, first) ==
    /\ mg_pc = "idle"
    /\ mg_calls < MaxMigrateCalls
    /\ mg_calls' = mg_calls + 1
    /\ mg_op' = f
    /\ mg_pc' = first
    /\ target_version' = target
    /\ applied' = <<>>
    /\ mg_idx' = 0
    /\ success' = TRUE
    /\ mg_result' = "none"
    /\ mg_before' = schema_migrations
    /\ mg_log' = <<>>
    /\ UNCHANGED <<model_tables, migration_table, schema_migrations, migrateFrame>>

CallMigrateUp == MigrateCall("migrate_up", NoTarget, "create_table")
CallMigrateDown ==
    \E t \in {NoTarget} \cup ToSet(Registered) :
       MigrateCall("migrate_down", t, "get_applied")
CallReset == MigrateCall("reset_database", NoTarget, "drop_tables")

\* the function ends by an exception: reset_database answers False (lines
\* 313-315), migrate_up lets it through
MigrateRaise ==
    /\ mg_result' = IF mg_op = "reset_database" THEN "False" ELSE "raised"
    /\ mg_pc' = "idle"

\* reset_database, line 311, and drop_tables: Base.metadata.drop_all drops the
\* tables of the models, or fails having dropped some or none
DropTables ==
    /\ mg_pc = "drop_tables"
    /\ \/ /\ model_tables' = FALSE
          /\ mg_pc' = "create_table"
          /\ UNCHANGED mg_result
       \/ /\ model_tables' \in {model_tables, FALSE}
          /\ MigrateRaise
    /\ UNCHANGED <<migration_table, schema_migrations, mg_op, mg_calls, mg_before,
                   mg_log, migrateLocals, migrateFrame>>

\* line 157 and create_migration_table: CREATE TABLE IF NOT EXISTS, committed
CreateMigrationTable ==
    /\ mg_pc = "create_table"
    /\ \/ /\ migration_table' = TRUE
          /\ mg_pc' = "get_applied"
          /\ UNCHANGED mg_result
       \/ /\ MigrateRaise
          /\ UNCHANGED migration_table
    /\ UNCHANGED <<model_tables, schema_migrations, mg_op, mg_calls, mg_before,
                   mg_log, migrateLocals, migrateFrame>>

\* lines 158 and 178-179, and get_applied_migrations: the versions recorded,
\* in order, or [] when the SELECT fails; migrate_down reverses the list
GetAppliedMigrations ==
    /\ mg_pc = "get_applied"
    /\ \E rows \in {OrderByVersion(schema_migrations)}
                      \cup (IF migration_table THEN {} ELSE {<<>>}) \cup {<<>>} :
          applied' = IF mg_op = "migrate_down" THEN Reverse(rows) ELSE rows
    /\ mg_idx' = 1
    /\ mg_pc' = "loop"
    /\ UNCHANGED <<model_tables, migration_table, schema_migrations, mg_op,
                   mg_calls, mg_before, mg_log, mg_result, target_version,
                   success, migrateFrame>>

\* a loop that goes on after a migration that failed
AfterApply_Continue(ok) == "loop"

\* lines 163-165 and 186-188: break at the first migration that fails
AfterApply(ok) == IF ok THEN "loop" ELSE "return"

\* the migration's up() and the INSERT can go through: the indexes of 002
\* need the tables, the version is the primary key of schema_migrations
CanApply(version) ==
    /\ migration_table
    /\ version \notin schema_migrations
    /\ version = AddIndexes => model_tables

\* lines 161-165 and apply_migration: one turn of the loop of migrate_up
MigrateUpLoop ==
    /\ mg_pc = "loop"
    /\ mg_op \in {"migrate_up", "reset_database"}
    /\ IF mg_idx > Len(Registered)
       THEN /\ mg_pc' = "return"
            /\ UNCHANGED <<model_tables, schema_migrations, mg_idx, success, mg_log>>
       ELSE LET version == Registered[mg_idx]
            IN  IF version \in ToSet(applied)
                THEN /\ mg_idx' = mg_idx + 1
                     /\ UNCHANGED <<model_tables, schema_migrations, mg_pc, success,
                                    mg_log>>
                ELSE \/ /\ CanApply(version)
                        /\ model_tables' = (model_tables \/ version = InitialSchema)
                        /\ schema_migrations' = SessionCommit(schema_migrations, {version})
                        /\ mg_log' = Append(mg_log, <<version, TRUE>>)
                        /\ mg_idx' = mg_idx + 1
                        /\ mg_pc' = AfterApply(TRUE)
                        /\ UNCHANGED success
                     \/ /\ model_tables' \in {model_tables,
                                              model_tables \/ version = InitialSchema}
                        /\ schema_migrations' = SessionRollback(schema_migrations, {version})
                        /\ mg_log' = Append(mg_log, <<version, FALSE>>)
                        /\ success' = FALSE
                        /\ mg_idx' = mg_idx + 1
                        /\ mg_pc' = AfterApply(FALSE)
    /\ UNCHANGED <<migration_table, mg_op, mg_calls, mg_before, mg_result,
                   target_version, applied, migrateFrame>>

\* lines 182-188 and rollback_migration: one turn of the loop of migrate_down
MigrateDownLoop ==
    /\ mg_pc = "loop"
    /\ mg_op = "migrate_down"
    /\ IF mg_idx > Len(applied)
       THEN /\ mg_pc' = "return"
            /\ UNCHANGED <<model_tables, schema_migrations, mg_idx, success, mg_log>>
       ELSE LET version == applied[mg_idx]
            IN  IF target_version # NoTarget /\ version <= target_version
                THEN /\ mg_pc' = "return"
                     /\ UNCHANGED <<model_tables, schema_migrations, mg_idx, success,
                                    mg_log>>
                ELSE \/ /\ model_tables' = (model_tables /\ version # InitialSchema)
                        /\ schema_migrations' = schema_migrations \ {version}
                        /\ mg_log' = Append(mg_log, <<version, TRUE>>)
                        /\ mg_idx' = mg_idx + 1
                        /\ mg_pc' = AfterApply(TRUE)
                        /\ UNCHANGED success
                     \/ /\ model_tables' \in {model_tables,
                                              model_tables /\ version # InitialSchema}
                        /\ mg_log' = Append(mg_log, <<version, FALSE>>)
                        /\ success' = FALSE
                        /\ mg_idx' = mg_idx + 1
                        /\ mg_pc' = AfterApply(FALSE)
                        /\ UNCHANGED schema_migrations
    /\ UNCHANGED <<migration_table, mg_op, mg_calls, mg_before, mg_result,
                   target_version, applied, migrateFrame>>

\* lines 167, 190 and 312: return success
MigrateReturn ==
    /\ mg_pc = "return"
    /\ mg_result' = IF success THEN "True" ELSE "False"
    /\ mg_pc' = "idle"
    /\ UNCHANGED <<model_tables, migration_table, schema_migrations, mg_op,
                   mg_calls, mg_before, mg_log, migrateLocals, migrateFrame>>

NextMigrate ==
    \/ CallMigrateUp
    \/ CallMigrateDown
    \/ CallReset
    \/ DropTables
    \/ CreateMigrationTable
    \/ GetAppliedMigrations
    \/ MigrateUpLoop
    \/ MigrateDownLoop
    \/ MigrateReturn

SpecMigrate == InitMigrate /\ [][NextMigrate]_vars

\* C29: whenever reset_database() returns True the tables of the models exist
C29_ResetRecreates ==
    (mg_pc = "idle" /\ mg_op = "reset_database" /\ mg_result = "True") => model_tables

\* the first n versions of the registered list
RegisteredPrefix(n) == {Registered[i] : i \in 1..n}
Attempts == 1..Len(mg_log)
Succeeded == {mg_log[i][1] : i \in {j \in Attempts : mg_log[j][2]}}
SomeFailed == \E i \in Attempts : ~mg_log[i][2]

\* C30: migrate_up attempts migrations in registered order, a version is
\* recorded exactly when its migration succeeded and was pending, the first
\* failure is the last attempt and makes the call return False, a call that
\* returns True leaves every registered version recorded, and after any calls
\* the recorded versions are a prefix of 001, 002, 003
C30_RecordedPrefix ==
    /\ \E n \in 0..Len(Registered) : schema_migrations = RegisteredPrefix(n)
    /\ mg_op \in {"migrate_up", "reset_database"} =>
          /\ \A i, j \in Attempts : i < j => mg_log[i][1] < mg_log[j][1]
          /\ \A i \in Attempts : mg_log[i][2] => mg_log[i][1] \notin mg_before
          /\ schema_migrations = mg_before \cup Succeeded
          /\ \A i \in Attempts : ~mg_log[i][2] => i = Len(mg_log)
          /\ SomeFailed => ~success /\ mg_pc \in {"return", "idle"}
          /\ (mg_pc = "idle" /\ SomeFailed) => mg_result = "False"
          /\ mg_result = "True" =>
                ~SomeFailed /\ schema_migrations = ToSet(Registered)

\* migrate_up applied 001, failed on 002 and returned False without trying 003
C30_Witness ==
    /\ mg_op = "migrate_up"
    /\ mg_pc = "idle"
    /\ mg_before = {}
    /\ mg_log = << <<InitialSchema, TRUE>>, <<AddIndexes, FALSE>> >>
    /\ schema_migrations = {InitialSchema}
    /\ mg_result = "False"

====
